---------------------------- MODULE Spec2Model ----------------------------
(***************************************************************************)
(* Model of the chess repertoire optimizer: the position graph             *)
(* (position.rs), the repertoire builder, book augmentation, own-move      *)
(* normalizer and propagation engine (repertoire_optimizer.rs), the        *)
(* memoizing book cache (opening_book/cache.rs) and the control flow of    *)
(* main (main.rs).                                                         *)
(*                                                                         *)
(* f64 values are modelled as multiples of the least positive value of a   *)
(* scaled-down binary floating-point format: the unit is 2^-UnitBits       *)
(* (2^-1074 for f64).  Products round to the nearest multiple, ties to     *)
(* even, as IEEE 754 does in the subnormal range; every sum the model      *)
(* forms is an exact multiple and so is not rounded.                       *)
(*                                                                         *)
(* The rules engine (pleco) and the PGN reader (chess_pgn_parser) are      *)
(* external crates.  The engine is represented by a finite table of        *)
(* positions and legal moves, LegalMoves, that contains a transposition,   *)
(* a repetition cycle through the initial position, and a position in      *)
(* which two pieces of one kind reach the same square.                     *)
(***************************************************************************)
EXTENDS Integers, Sequences, FiniteSets, TLC

-----------------------------------------------------------------------------
(* Bounds of the model *)

\* the least positive float is 2^-UnitBits
UnitBits == 2

\* number of repertoire files given on the command line, over both colours
MaxFiles == 1

-----------------------------------------------------------------------------
(* f64 *)

RECURSIVE Pow2(_)
Pow2(n) == IF n = 0 THEN 1 ELSE 2 * Pow2(n - 1)

\* 1.0
One == Pow2(UnitBits)

\* 0.5
Half == One \div 2

\* number of loop iterations of update_position_frequencies explored in one
\* run (the loop itself is unbounded); more than any run of the model needs
\* to bring a mass below the least positive float
MaxSteps == 16 * (UnitBits + 1)

\* round n/d to the nearest integer, ties to even
RoundHalfEven(n, d) ==
    LET q == n \div d
        r == n % d
    IN  IF 2 * r < d THEN q
        ELSE IF 2 * r > d THEN q + 1
        ELSE IF q % 2 = 0 THEN q ELSE q + 1

\* a * b on f64
FMul(a, b) == RoundHalfEven(a * b, One)

\* a / b on f64
FDiv(a, b) == RoundHalfEven(a * One, b)

\* n as f64
AsF64(n) == n * One

-----------------------------------------------------------------------------
(* Finite maps (std::collections::HashMap) *)

Put(m, k, v) == [x \in DOMAIN m \cup {k} |-> IF x = k THEN v ELSE m[x]]

EmptyMap == [x \in {} |-> 0]

\* the elements of a set in some fixed order
RECURSIVE SetToSeq(_)
SetToSeq(S) ==
    IF S = {} THEN <<>>
    ELSE LET x == CHOOSE y \in S : TRUE IN <<x>> \o SetToSeq(S \ {x})

\* all orders in which the elements of a set can be enumerated
RECURSIVE Orders(_)
Orders(S) ==
    IF S = {} THEN {<<>>}
    ELSE UNION {{<<x>> \o t : t \in Orders(S \ {x})} : x \in S}

-----------------------------------------------------------------------------
(* Fen (position.rs) *)

\* Fen::new: a description is the sequence of its space-separated fields;
\* the shortened string drops everything from the second-to-last space on
FenNew(fen_str) ==
    [fen_str |-> fen_str,
     shortened_fen_str |-> SubSeq(fen_str, 1, Len(fen_str) - 2)]

StartingBoard == FenNew(<<"init", "w", "KQkq", "-", 0, 1>>)

\* impl PartialEq / Hash for Fen: the key of a Fen in every HashMap
Key(fen) == fen.shortened_fen_str

\* a variant that writes the whole string: serialize_str(&self.fen_str)
FenSerialize_full(fen) == fen.fen_str

\* impl Serialize for Fen
FenSerialize(fen) == fen.shortened_fen_str

\* impl Deserialize for Fen
FenDeserialize(s) == [fen_str |-> s, shortened_fen_str |-> s]

-----------------------------------------------------------------------------
(* The rules engine: Board::from_fen, turn, generate_moves, apply_move,    *)
(* apply_uci_move, fen                                                     *)

Sq(f, r) == [file |-> f, rank |-> r]

\* a square of which the PGN move text gives neither file nor rank
SqXX == Sq(0, 0)

\* board.turn() of the board built from a description
Turn(fen_str) == IF fen_str[2] = "w" THEN "White" ELSE "Black"

BitMove(at, piece, src, dest, uci, to, zeroing) ==
    [at |-> at, piece |-> piece, src |-> src, dest |-> dest,
     is_capture |-> FALSE, promo |-> "None", castle |-> "None",
     uci |-> uci, to |-> to, zeroing |-> zeroing]

\* the legal moves of the positions of the table; `at` and `to` are piece
\* placements, `zeroing` says whether the move resets the halfmove clock
LegalMoves ==
    { BitMove("init", "Pawn", Sq(5, 2), Sq(5, 4), "e2e4", "e4", TRUE),
      BitMove("init", "Knight", Sq(7, 1), Sq(6, 3), "g1f3", "Nf3", FALSE),
      BitMove("init", "Pawn", Sq(4, 2), Sq(4, 4), "d2d4", "d4", TRUE),
      BitMove("e4", "Pawn", Sq(5, 7), Sq(5, 5), "e7e5", "e4_e5", TRUE),
      BitMove("e4", "Knight", Sq(7, 8), Sq(6, 6), "g8f6", "e4_Nf6", FALSE),
      BitMove("Nf3", "Knight", Sq(7, 8), Sq(6, 6), "g8f6", "Nf3_Nf6", FALSE),
      BitMove("e4_Nf6", "Knight", Sq(7, 1), Sq(6, 3), "g1f3", "e4_Nf3_Nf6", FALSE),
      BitMove("Nf3_Nf6", "Pawn", Sq(5, 2), Sq(5, 4), "e2e4", "e4_Nf3_Nf6", TRUE),
      BitMove("Nf3_Nf6", "Knight", Sq(6, 3), Sq(7, 1), "f3g1", "Nf6", FALSE),
      BitMove("Nf6", "Knight", Sq(6, 6), Sq(7, 8), "f6g8", "init", FALSE),
      BitMove("e4_e5", "Knight", Sq(7, 1), Sq(5, 2), "g1e2", "e4_e5_Nge2", FALSE),
      BitMove("e4_e5", "Knight", Sq(3, 3), Sq(5, 2), "c3e2", "e4_e5_Nce2", FALSE) }

\* new_board.generate_moves()
GenerateMoves(fen_str) == {b \in LegalMoves : b.at = fen_str[1]}

\* new_board.apply_move(bmv); new_board.fen()
BoardAfter(fen_str, bmv) ==
    << bmv.to,
       IF fen_str[2] = "w" THEN "b" ELSE "w",
       fen_str[3],
       "-",
       IF bmv.zeroing THEN 0 ELSE fen_str[5] + 1,
       IF fen_str[2] = "b" THEN fen_str[6] + 1 ELSE fen_str[6] >>

-----------------------------------------------------------------------------
(* conversion.rs *)

\* equal_file: an unknown file matches every file
equal_file(sq1, sq2) == sq1.file = 0 \/ sq1.file = sq2.file

\* equal_rank: an unknown rank matches every rank
equal_rank(sq1, sq2) == sq1.rank = 0 \/ sq1.rank = sq2.rank

\* equal_piece
equal_piece(p1, p2) == p1 = p2

\* equal_promotion
equal_promotion(po, bmv) ==
    IF po # "None"
    THEN bmv.promo # "None" /\ po \in {"Bishop", "Knight", "Queen", "Rook"}
         /\ po = bmv.promo
    ELSE bmv.promo = "None"

move_matches_bitmove(mv, bmv) ==
    CASE mv.kind = "CastleKingside" -> bmv.castle = "King"
      [] mv.kind = "CastleQueenside" -> bmv.castle = "Queen"
      [] OTHER ->
            /\ mv.is_capture = bmv.is_capture
            /\ equal_file(mv.to, bmv.dest)
            /\ equal_rank(mv.to, bmv.dest)
            /\ equal_piece(mv.piece, bmv.piece)
            /\ equal_file(mv.from, bmv.src)
            /\ equal_rank(mv.from, bmv.src)
            /\ equal_promotion(mv.promoted_to, bmv)

-----------------------------------------------------------------------------
(* Game records as chess_pgn_parser delivers them *)

BasicMove(piece, to) ==
    [kind |-> "BasicMove", piece |-> piece, to |-> to, from |-> SqXX,
     is_capture |-> FALSE, promoted_to |-> "None"]

CastleKingside ==
    [kind |-> "CastleKingside", piece |-> "King", to |-> SqXX, from |-> SqXX,
     is_capture |-> FALSE, promoted_to |-> "None"]

mv_e4 == BasicMove("Pawn", Sq(5, 4))
mv_d4 == BasicMove("Pawn", Sq(4, 4))
mv_e5 == BasicMove("Pawn", Sq(5, 5))
mv_Nf3 == BasicMove("Knight", Sq(6, 3))
mv_Nf6 == BasicMove("Knight", Sq(6, 6))
mv_Ng1 == BasicMove("Knight", Sq(7, 1))
mv_Ng8 == BasicMove("Knight", Sq(7, 8))
mv_Ne2 == BasicMove("Knight", Sq(5, 2))
\* Ngf3: the file of the knight is given
mv_Ngf3 == [BasicMove("Knight", Sq(6, 3)) EXCEPT !.from = Sq(7, 0)]

\* a game without moves
GameEmpty == <<>>
\* 1.e4 e5
GameE4E5 == <<mv_e4, mv_e5>>
\* 1.e4 Nf6 2.Nf3 and 1.Nf3 Nf6 2.e4 reach the same position
GameTrA == <<mv_e4, mv_Nf6, mv_Nf3>>
GameTrB == <<mv_Nf3, mv_Nf6, mv_e4>>
\* 1.Nf3 Nf6 2.Ng1 Ng8 repeats the initial position
GameCycle == <<mv_Nf3, mv_Nf6, mv_Ng1, mv_Ng8>>
\* 1.e4 0-0: the second move is illegal, the third would be legal in its place
GameIllegal == <<mv_e4, CastleKingside, mv_e5>>
\* 1.e4 e5 2.Ne2: two knights reach e2, then a move legal after 1.e4 e5
GameAmbiguous == <<mv_e4, mv_e5, mv_Ne2, mv_Ne2>>

\* what RepertoireOptimizer::read_games returns for the files of the model:
\* the games of the file, or an error
FileE4E5 == [ok |-> TRUE, games |-> <<GameE4E5>>]

FileBadMoves == [ok |-> TRUE, games |-> <<GameIllegal, GameAmbiguous, GameE4E5>>]

FileUnreadable == [ok |-> FALSE, games |-> <<>>]

\* 1.Nf3 Nf6, and 1.Ngf3: the same first move written in another way
FileRewrite == [ok |-> TRUE, games |-> <<<<mv_Nf3, mv_Nf6>>, <<mv_Ngf3>>>>]

\* 1.e4, 1.Nf3 and 1.d4: three first moves of White
FileThree == [ok |-> TRUE, games |-> <<<<mv_e4>>, <<mv_Nf3>>, <<mv_d4>>>>]

FileCatalogue ==
    { FileE4E5,
      [ok |-> TRUE, games |-> <<GameTrA, GameTrB>>],
      [ok |-> TRUE, games |-> <<GameCycle>>],
      FileBadMoves,
      [ok |-> TRUE, games |-> <<GameEmpty>>],
      [ok |-> TRUE, games |-> <<GameCycle, GameTrA>>],
      FileUnreadable }

-----------------------------------------------------------------------------
(* Position and PositionCache (position.rs) *)

ModelMove(mv) == [tag |-> "ModelMove", mv |-> mv]

UCI(uci) == [tag |-> "UCI", uci |-> uci]

IllegalMove(fen_str, mv) == [kind |-> "IllegalMove", fen_str |-> fen_str, mv |-> mv]

AmbiguousMove(fen_str, mv) == [kind |-> "AmbiguousMove", fen_str |-> fen_str, mv |-> mv]

\* the Position that PositionCache creates for a Fen
NewPosition(fen, sequence) ==
    [fen |-> fen,
     frequency |-> 0,
     transitions |-> EmptyMap,
     likeliest_sequence |-> [moves |-> sequence, frequency |-> 0]]

\* a variant that inserts: self.map.insert(fen.clone(), Position { .. })
position_fresh(map, fen) == Put(map, Key(fen), NewPosition(fen, <<>>))

\* PositionCache::position: map.entry(fen).or_insert_with(..)
position(map, fen) ==
    IF Key(fen) \in DOMAIN map THEN map
    ELSE Put(map, Key(fen), NewPosition(fen, <<>>))

\* PositionCache::position_w_sequence
position_w_sequence(map, fen, sequence) ==
    IF Key(fen) \in DOMAIN map THEN map
    ELSE Put(map, Key(fen), NewPosition(fen, sequence))

\* a HashMap keeps the key it has when a value is inserted for an equal key
KeptKey(transitions, fen) ==
    IF Key(fen) \in DOMAIN transitions THEN transitions[Key(fen)].fen ELSE fen

\* the legal moves that match the recorded move
Candidates(pos, mv) ==
    {bmv \in GenerateMoves(pos.fen.fen_str) : move_matches_bitmove(mv, bmv)}

\* a variant that takes the first candidate and does not look for a second
apply_move_first(pos, mv) ==
    LET candidates == Candidates(pos, mv)
    IN  IF candidates = {}
        THEN [ok |-> FALSE, err |-> IllegalMove(pos.fen.fen_str, mv), pos |-> pos]
        ELSE LET bmv == CHOOSE b \in candidates : TRUE
                 new_fen == FenNew(BoardAfter(pos.fen.fen_str, bmv))
             IN  [ok |-> TRUE,
                  fen |-> new_fen,
                  pos |-> [pos EXCEPT !.transitions =
                              Put(@, Key(new_fen),
                                  [fen |-> KeptKey(@, new_fen),
                                   mv |-> ModelMove(mv), frequency |-> 0])]]

\* Position::apply_move: the error, or the new Fen and the position with
\* the transition inserted
apply_move(pos, mv) ==
    LET candidates == Candidates(pos, mv)
    IN  IF candidates = {}
        THEN [ok |-> FALSE, err |-> IllegalMove(pos.fen.fen_str, mv), pos |-> pos]
        ELSE IF Cardinality(candidates) > 1
        THEN [ok |-> FALSE, err |-> AmbiguousMove(pos.fen.fen_str, mv), pos |-> pos]
        ELSE LET bmv == CHOOSE b \in candidates : TRUE
                 new_fen == FenNew(BoardAfter(pos.fen.fen_str, bmv))
             IN  [ok |-> TRUE,
                  fen |-> new_fen,
                  pos |-> [pos EXCEPT !.transitions =
                              Put(@, Key(new_fen),
                                  [fen |-> KeptKey(@, new_fen),
                                   mv |-> ModelMove(mv), frequency |-> 0])]]

\* a variant that leaves the placeholder: or_insert(..) without the assignment
apply_uci_placeholder(pos, uci, frequency) ==
    LET legal == {bmv \in GenerateMoves(pos.fen.fen_str) : bmv.uci = uci}
    IN  IF legal = {}
        THEN [ok |-> FALSE, err |-> IllegalMove(pos.fen.fen_str, uci), pos |-> pos]
        ELSE LET bmv == CHOOSE b \in legal : TRUE
                 new_fen == FenNew(BoardAfter(pos.fen.fen_str, bmv))
                 k == Key(new_fen)
             IN  [ok |-> TRUE,
                  fen |-> new_fen,
                  pos |-> [pos EXCEPT !.transitions =
                              IF k \in DOMAIN @ THEN @
                              ELSE Put(@, k, [fen |-> new_fen, mv |-> UCI(uci),
                                              frequency |-> 0])]]

\* a variant that inserts: self.transitions.insert(new_fen.clone(), ..)
apply_uci_replace(pos, uci, frequency) ==
    LET legal == {bmv \in GenerateMoves(pos.fen.fen_str) : bmv.uci = uci}
    IN  IF legal = {}
        THEN [ok |-> FALSE, err |-> IllegalMove(pos.fen.fen_str, uci), pos |-> pos]
        ELSE LET bmv == CHOOSE b \in legal : TRUE
                 new_fen == FenNew(BoardAfter(pos.fen.fen_str, bmv))
             IN  [ok |-> TRUE,
                  fen |-> new_fen,
                  pos |-> [pos EXCEPT !.transitions =
                              Put(@, Key(new_fen),
                                  [fen |-> KeptKey(@, new_fen), mv |-> UCI(uci),
                                   frequency |-> frequency])]]

\* Position::apply_uci: an existing transition keeps its move and gets the
\* frequency, a new one is inserted with the UCI move
apply_uci(pos, uci, frequency) ==
    LET legal == {bmv \in GenerateMoves(pos.fen.fen_str) : bmv.uci = uci}
    IN  IF legal = {}
        THEN [ok |-> FALSE, err |-> IllegalMove(pos.fen.fen_str, uci), pos |-> pos]
        ELSE LET bmv == CHOOSE b \in legal : TRUE
                 new_fen == FenNew(BoardAfter(pos.fen.fen_str, bmv))
                 k == Key(new_fen)
             IN  [ok |-> TRUE,
                  fen |-> new_fen,
                  pos |-> [pos EXCEPT !.transitions =
                              Put(@, k,
                                  IF k \in DOMAIN @
                                  THEN [@[k] EXCEPT !.frequency = frequency]
                                  ELSE [fen |-> new_fen, mv |-> UCI(uci),
                                        frequency |-> frequency])]]

\* Position::transition_count
transition_count(pos) == Cardinality(DOMAIN pos.transitions)

\* a variant that overwrites: self.frequency = fdelta
increase_frequency_overwrite(pos, fdelta) == [pos EXCEPT !.frequency = fdelta]

\* Position::increase_frequency
increase_frequency(pos, fdelta) == [pos EXCEPT !.frequency = @ + fdelta]

\* a variant that keeps the path the position has
set_sequence_kept(pos, sequence) == pos

\* Position::set_sequence, given the Vec<AnyMove> of the work item; a
\* MoveSequence made of a Vec has frequency 0.0 (see position_w_sequence)
set_sequence(pos, sequence) ==
    [pos EXCEPT !.likeliest_sequence = [moves |-> sequence, frequency |-> 0]]

-----------------------------------------------------------------------------
(* State *)

Players == {"White", "Black"}

VARIABLES
    opt,                  \* the command line: repertoire files, cache file
    pc,                   \* where main is
    result,               \* what main returned, kind "None" while it runs
    files,                \* per optimizer, the files still to import
    games,                \* the games of the current file still to add
    cur,                  \* the running add_game_to_repertoire: fen, sequence, moves left
    log,                  \* the add_game_to_repertoire calls made and their results
    tree,                 \* per optimizer, map of its PositionCache
    average_book_length,  \* per optimizer
    positions_to_update,  \* the work-list of the running update_position_frequencies
    steps,                \* iterations of its loop so far
    iteration,            \* per position, the order in which its HashMap of
                          \* transitions is iterated during this run
    opening_book,         \* the Cache: cache (map) and has_changed
    disk,                 \* the bytes of the cache file
    probe,                \* observations of the book provider and of Cache::moves
    report                \* what main has printed

vars == <<opt, pc, result, files, games, cur, log, tree, average_book_length,
          positions_to_update, steps, iteration, opening_book, disk, probe,
          report>>

NoGame == [active |-> FALSE]

NoFile == [exists |-> FALSE]

\* Cache::new
CacheNew == [cache |-> EmptyMap, has_changed |-> FALSE]

NoSave == [made |-> FALSE]

\* nothing observed yet, of a cache that has just been created
ProbeNew ==
    [calls |-> EmptyMap, first |-> EmptyMap, missed |-> FALSE,
     queried |-> FALSE, stale |-> FALSE, last |-> [asked |-> FALSE],
     saved |-> NoSave, loaded |-> FALSE, ops |-> 0,
     asks |-> EmptyMap, got |-> EmptyMap]

\* the file lists of both colours, MaxFiles files at most together, and two
\* lists in which a file follows a file that has bad moves or cannot be read,
\* one of a file in which a move is written in two ways, and one of a file
\* with three moves for one position
Repertoires ==
    {r \in [Players -> UNION {[1..n -> FileCatalogue] : n \in 0..MaxFiles}] :
        Len(r["White"]) + Len(r["Black"]) <= MaxFiles}
    \cup {[White |-> <<FileBadMoves, FileE4E5>>, Black |-> <<>>],
          [White |-> <<>>, Black |-> <<FileUnreadable, FileBadMoves>>],
          [White |-> <<FileRewrite>>, Black |-> <<>>],
          [White |-> <<FileThree>>, Black |-> <<>>]}

-----------------------------------------------------------------------------
(* RepertoireOptimizer::add_game_to_repertoire, and the import loops of main *)

\* main: RepertoireOptimizer::read_games(&path) of the next file of a colour
ReadGames(me) ==
    /\ pc = <<"import", me>>
    /\ ~cur.active /\ games = <<>> /\ files[me] # <<>>
    /\ games' = IF Head(files[me]).ok THEN Head(files[me]).games ELSE <<>>
    /\ files' = [files EXCEPT ![me] = Tail(@)]
    /\ UNCHANGED <<report, opt, pc, result, cur, log, tree, average_book_length,
                   positions_to_update, steps, iteration, opening_book, disk, probe>>

\* add_game_to_repertoire up to its loop: the cursor is the starting board
BeginGame(me) ==
    /\ pc = <<"import", me>>
    /\ ~cur.active /\ games # <<>>
    /\ cur' = [active |-> TRUE, game |-> Head(games), fen |-> StartingBoard,
               sequence |-> <<>>, moves |-> Head(games),
               path |-> <<StartingBoard>>]
    /\ games' = Tail(games)
    /\ tree' = [tree EXCEPT ![me] = position(@, StartingBoard)]
    /\ UNCHANGED <<report, opt, pc, result, files, log, average_book_length,
                   positions_to_update, steps, iteration, opening_book, disk, probe>>

\* a variant that goes on with the next move of the game
abort_move(c) == [c EXCEPT !.moves = Tail(@)]

\* fen = pos.apply_move(..)?: the error leaves add_game_to_repertoire
abort(c) == NoGame

\* one iteration of the loop over game.moves; an error of apply_move returns
\* from add_game_to_repertoire (the ? operator) and main logs it
GameMove(me) ==
    /\ pc = <<"import", me>>
    /\ cur.active /\ cur.moves # <<>>
    /\ LET mv == Head(cur.moves)
           sequence == Append(cur.sequence, ModelMove(mv))
           applied == apply_move(tree[me][Key(cur.fen)], mv)
       IN  IF applied.ok
           THEN /\ tree' = [tree EXCEPT ![me] =
                      position_w_sequence(
                          [@ EXCEPT ![Key(cur.fen)] = applied.pos],
                          applied.fen, sequence)]
                /\ cur' = [cur EXCEPT !.fen = applied.fen,
                                      !.sequence = sequence,
                                      !.moves = Tail(@),
                                      !.path = Append(@, applied.fen)]
                /\ log' = log
           ELSE /\ tree' = tree
                /\ cur' = abort(cur)
                /\ log' = Append(log, [me |-> me, game |-> cur.game,
                                       at |-> cur.fen, path |-> cur.path,
                                       left |-> Len(cur.moves),
                                       result |-> applied.err])
    /\ UNCHANGED <<report, opt, pc, result, files, games, average_book_length,
                   positions_to_update, steps, iteration, opening_book, disk, probe>>

\* the loop is over: Ok(())
EndGame(me) ==
    /\ pc = <<"import", me>>
    /\ cur.active /\ cur.moves = <<>>
    /\ cur' = NoGame
    /\ log' = Append(log, [me |-> me, game |-> cur.game, at |-> cur.fen,
                           path |-> cur.path, left |-> 0, result |-> [kind |-> "Ok"]])
    /\ UNCHANGED <<report, opt, pc, result, files, games, tree, average_book_length,
                   positions_to_update, steps, iteration, opening_book, disk, probe>>

\* main: the loop over the files of a colour is over
ImportDone(me) ==
    /\ pc = <<"import", me>>
    /\ ~cur.active /\ games = <<>> /\ files[me] = <<>>
    /\ pc' = IF me = "White" THEN <<"import", "Black">> ELSE <<"book", "White">>
    /\ UNCHANGED <<report, opt, result, files, games, cur, log, tree, average_book_length,
                   positions_to_update, steps, iteration, opening_book, disk, probe>>

-----------------------------------------------------------------------------
(* The book provider and the Cache in front of it (opening_book/cache.rs) *)

BookMove(uci, frequency) == [uci |-> uci, frequency |-> frequency]

\* OpeningBook::moves of the wrapped provider: the lists it may return for a
\* position; its statistics may differ from one request to the next
ProviderAnswers(fen) ==
    LET at == fen.fen_str[1]
    IN  CASE at = "init" ->
                {<<BookMove("e2e4", Half), BookMove("g1f3", Half)>>,
                 <<BookMove("g1f3", One)>>}
          [] at = "e4" ->
                {<<BookMove("e7e5", One)>>,
                 <<BookMove("e7e5", Half), BookMove("g8f6", Half)>>}
          [] at = "Nf3" ->
                {<<BookMove("g8f6", One)>>, <<>>}
          [] at = "e4_e5" ->
                {<<>>, <<BookMove("g1e2", Half), BookMove("e1g1", Half)>>}
          [] at = "e4_Nf6" -> {<<BookMove("g1f3", One)>>}
          [] at = "Nf3_Nf6" ->
                {<<BookMove("f3g1", One)>>,
                 <<BookMove("e2e4", Half), BookMove("f3g1", Half)>>}
          [] at = "Nf6" ->
                {<<BookMove("f6g8", One)>>, <<BookMove("f6g8", Half)>>}
          [] OTHER -> {<<>>}

\* a variant that asks the wrapped book every time and stores nothing
CacheMoves_uncached(book, fen, answer) ==
    [book |-> [book EXCEPT !.has_changed = TRUE], moves |-> answer, miss |-> TRUE]

\* impl OpeningBook for Cache: moves.  `answer` is what the wrapped book
\* returns if it is asked
CacheMoves(book, fen, answer) ==
    IF Key(fen) \in DOMAIN book.cache
    THEN [book |-> book, moves |-> book.cache[Key(fen)].moves, miss |-> FALSE]
    ELSE [book |-> [cache |-> Put(book.cache, Key(fen),
                                  [fen |-> fen, moves |-> answer]),
                    has_changed |-> TRUE],
          moves |-> answer,
          miss |-> TRUE]

\* bincode::serialize(&self.cache)
Serialize(cache) == {<<FenSerialize(cache[k].fen), cache[k].moves>> : k \in DOMAIN cache}

\* bincode::deserialize(&data)
Deserialize(data) ==
    [k \in {Key(FenDeserialize(e[1])) : e \in data} |->
        LET e == CHOOSE d \in data : Key(FenDeserialize(d[1])) = k
        IN  [fen |-> FenDeserialize(e[1]), moves |-> e[2]]]

\* a variant that empties the cache before it reads: self.cache.clear();
\* self.has_changed = false; before read_to_end
CacheLoad_cleared(book, source) ==
    IF ~source.readable
    THEN [ok |-> FALSE, err |-> [kind |-> "StdIo"], book |-> CacheNew]
    ELSE IF ~source.valid
    THEN [ok |-> FALSE, err |-> [kind |-> "Bincode"], book |-> CacheNew]
    ELSE [ok |-> TRUE,
          book |-> [cache |-> Deserialize(source.data), has_changed |-> FALSE]]

\* Cache::load: a read error and undecodable bytes return before the map
\* and the flag are assigned
CacheLoad(book, source) ==
    IF ~source.readable THEN [ok |-> FALSE, err |-> [kind |-> "StdIo"], book |-> book]
    ELSE IF ~source.valid THEN [ok |-> FALSE, err |-> [kind |-> "Bincode"], book |-> book]
    ELSE [ok |-> TRUE,
          book |-> [cache |-> Deserialize(source.data), has_changed |-> FALSE]]

\* a variant that leaves the flag as it is
CacheSave_dirty(book, writable) ==
    IF ~writable THEN [ok |-> FALSE, err |-> [kind |-> "StdIo"], book |-> book]
    ELSE [ok |-> TRUE, data |-> Serialize(book.cache), book |-> book]

\* Cache::save: a write error returns before the flag is cleared
CacheSave(book, writable) ==
    IF ~writable THEN [ok |-> FALSE, err |-> [kind |-> "StdIo"], book |-> book]
    ELSE [ok |-> TRUE,
          data |-> Serialize(book.cache),
          book |-> [book EXCEPT !.has_changed = FALSE]]

\* a variant that reports a change always
has_changed_always(book) == TRUE

\* Cache::has_changed
has_changed(book) == book.has_changed

Count(m, k) == IF k \in DOMAIN m THEN m[k] ELSE 0

\* what is observed of one Cache::moves call
ProbeQuery(pr, fen, res) ==
    [pr EXCEPT
        !.calls = IF res.miss THEN Put(@, Key(fen), Count(@, Key(fen)) + 1) ELSE @,
        !.first = IF res.miss /\ Key(fen) \notin DOMAIN @
                  THEN Put(@, Key(fen), res.moves) ELSE @,
        !.missed = @ \/ res.miss,
        !.queried = TRUE,
        !.last = [asked |-> TRUE, key |-> Key(fen), moves |-> res.moves,
                  miss |-> res.miss],
        !.loaded = FALSE,
        !.asks = Put(@, Key(fen), Count(@, Key(fen)) + 1),
        !.got = Put(@, Key(fen), res.moves)]

\* a successful save of the map `cache`
ProbeSave(pr, cache) ==
    [pr EXCEPT !.missed = FALSE, !.loaded = FALSE,
               !.saved = [made |-> TRUE, cache |-> cache]]

\* a save that failed after bytes were written: the saved bytes are lost
ProbeSpoil(pr) == [pr EXCEPT !.saved = NoSave, !.loaded = FALSE]

\* a successful load, of the bytes of the last save or of others; it is
\* stale if queries came before it
ProbeLoad(pr, own) ==
    [pr EXCEPT !.missed = FALSE, !.stale = @ \/ pr.queried,
               !.loaded = own /\ pr.saved.made]

-----------------------------------------------------------------------------
(* RepertoireOptimizer::add_opponents_moves_from_book *)

\* the map over the book moves of one position: every apply_uci is made
RECURSIVE apply_all(_, _)
apply_all(pos, moves) ==
    IF moves = <<>> THEN [pos |-> pos, fens |-> <<>>]
    ELSE LET r == apply_uci(pos, Head(moves).uci, Head(moves).frequency)
             rest == apply_all(r.pos, Tail(moves))
         IN  [pos |-> rest.pos,
              fens |-> <<IF r.ok THEN [ok |-> TRUE, fen |-> r.fen]
                         ELSE [ok |-> FALSE, err |-> r.err]>> \o rest.fens]

\* the flat_map over the opponent's positions in the order the HashMap
\* yields them; st is the map, the book, the probe and the results so far
RECURSIVE query_all(_, _, _)
query_all(st, order, answers) ==
    IF order = <<>> THEN st
    ELSE LET k == Head(order)
             res == CacheMoves(st.book, st.map[k].fen, answers[k])
             a == apply_all(st.map[k], res.moves)
         IN  query_all([map |-> [st.map EXCEPT ![k] = a.pos],
                        book |-> res.book,
                        probe |-> ProbeQuery(st.probe, st.map[k].fen, res),
                        fens |-> st.fens \o a.fens],
                       Tail(order), answers)

\* a variant without the loop that creates the positions
create_all_none(map, fens) ==
    IF \E i \in DOMAIN fens : ~fens[i].ok
    THEN [ok |-> FALSE, map |-> map,
          err |-> fens[CHOOSE i \in DOMAIN fens :
                         ~fens[i].ok /\ \A j \in 1..(i - 1) : fens[j].ok].err]
    ELSE [ok |-> TRUE, map |-> map]

\* a variant that passes over the errors: for fen in fens.flatten()
RECURSIVE create_all_skip(_, _)
create_all_skip(map, fens) ==
    IF fens = <<>> THEN [ok |-> TRUE, map |-> map]
    ELSE IF ~Head(fens).ok THEN create_all_skip(map, Tail(fens))
    ELSE create_all_skip(position(map, Head(fens).fen), Tail(fens))

\* for fen in fens { self.tree.position(&fen?); }
RECURSIVE create_all(_, _)
create_all(map, fens) ==
    IF fens = <<>> THEN [ok |-> TRUE, map |-> map]
    ELSE IF ~Head(fens).ok THEN [ok |-> FALSE, map |-> map, err |-> Head(fens).err]
    ELSE create_all(position(map, Head(fens).fen), Tail(fens))

\* a variant without the filter on the side to move
Opponents_every(map, me) == DOMAIN map

\* .filter(|pos| pos.board().turn() != me)
Opponents(map, me) == {k \in DOMAIN map : Turn(map[k].fen.fen_str) # me}

\* what the provider returns where it is asked
AnswerChoices(map, book, ks) ==
    {a \in [ks -> UNION {ProviderAnswers(map[k].fen) : k \in ks} \cup {<<>>}] :
        \A k \in ks : IF k \in DOMAIN book.cache THEN a[k] = <<>>
                      ELSE a[k] \in ProviderAnswers(map[k].fen)}

AddOpponentsMovesFromBook(me) ==
    /\ pc = <<"book", me>>
    /\ \E order \in Orders(Opponents(tree[me], me)) :
       \E answers \in AnswerChoices(tree[me], opening_book, Opponents(tree[me], me)) :
          LET st == query_all([map |-> tree[me], book |-> opening_book,
                               probe |-> probe, fens |-> <<>>], order, answers)
              made == create_all(st.map, st.fens)
          IN  /\ tree' = [tree EXCEPT ![me] = made.map]
              /\ opening_book' = st.book
              /\ probe' = st.probe
              /\ IF made.ok
                 THEN /\ pc' = IF me = "White" THEN <<"book", "Black">>
                                               ELSE <<"own", "White">>
                      /\ result' = result
                 ELSE /\ pc' = <<"exit">>
                      /\ result' = made.err
    /\ UNCHANGED <<report, opt, files, games, cur, log, average_book_length,
                   positions_to_update, steps, iteration, disk>>

-----------------------------------------------------------------------------
(* RepertoireOptimizer::set_own_move_frequencies *)

\* a variant that fills in the placeholders only: if frequency == 0.0
set_own_placeholders(pos) ==
    LET proportional_frequency == FDiv(One, AsF64(transition_count(pos)))
    IN  [pos EXCEPT !.transitions =
            [k \in DOMAIN @ |->
                IF @[k].frequency = 0
                THEN [@[k] EXCEPT !.frequency = proportional_frequency]
                ELSE @[k]]]

\* the body of the loop: every transition of the position gets 1.0 / count
set_own(pos) ==
    LET proportional_frequency == FDiv(One, AsF64(transition_count(pos)))
    IN  [pos EXCEPT !.transitions =
            [k \in DOMAIN @ |-> [@[k] EXCEPT !.frequency = proportional_frequency]]]

\* the loop over the positions that pass the filter
set_own_move_frequencies(map, me) ==
    [k \in DOMAIN map |->
        IF Turn(map[k].fen.fen_str) = me /\ transition_count(map[k]) > 0
        THEN set_own(map[k]) ELSE map[k]]

SetOwnMoveFrequencies(me) ==
    /\ pc = <<"own", me>>
    /\ tree' = [tree EXCEPT ![me] = set_own_move_frequencies(@, me)]
    /\ pc' = IF me = "White" THEN <<"own", "Black">> ELSE <<"update", "White">>
    /\ UNCHANGED <<report, opt, result, files, games, cur, log, average_book_length,
                   positions_to_update, steps, iteration, opening_book, disk, probe>>

-----------------------------------------------------------------------------
(* RepertoireOptimizer::update_position_frequencies *)

FrequencyDelta(fen, fdelta, ply, sequence) ==
    [fen |-> fen, fdelta |-> fdelta, ply |-> ply, sequence |-> sequence]

\* Position::transitions: the orders in which the HashMaps of the positions
\* may yield their entries; a map that is not modified keeps its order
RECURSIVE IterationOrders(_, _)
IterationOrders(map, ks) ==
    IF ks = {} THEN {EmptyMap}
    ELSE LET k == CHOOSE x \in ks : TRUE
         IN  {Put(f, k, o) : f \in IterationOrders(map, ks \ {k}),
                             o \in Orders(DOMAIN map[k].transitions)}

\* the work-list is created with the item of the starting board
UpdateBegin(me) ==
    /\ pc = <<"update", me>>
    /\ positions_to_update' = <<FrequencyDelta(StartingBoard, One, 0, <<>>)>>
    /\ pc' = <<"loop", me>>
    /\ steps' = 0
    /\ iteration' \in IterationOrders(tree[me], DOMAIN tree[me])
    /\ UNCHANGED <<report, opt, result, files, games, cur, log, tree, average_book_length,
                   opening_book, disk, probe>>

\* a variant that pushes the mass of the item without the weight of the edge
RECURSIVE pushed_unweighted(_, _, _)
pushed_unweighted(pos, item, keys) ==
    IF keys = <<>> THEN <<>>
    ELSE LET transition == pos.transitions[Head(keys)]
         IN  <<FrequencyDelta(transition.fen, item.fdelta, item.ply + 1,
                              Append(item.sequence, transition.mv))>>
             \o pushed_unweighted(pos, item, Tail(keys))

\* the items pushed for the transitions of a position, in the order given
RECURSIVE pushed(_, _, _)
pushed(pos, item, keys) ==
    IF keys = <<>> THEN <<>>
    ELSE LET transition == pos.transitions[Head(keys)]
         IN  <<FrequencyDelta(transition.fen,
                              FMul(item.fdelta, transition.frequency),
                              item.ply + 1,
                              Append(item.sequence, transition.mv))>>
             \o pushed(pos, item, Tail(keys))

\* a variant without the test of the mass
discard_never(item) == FALSE

\* a variant with a threshold: if fdelta <= f64::MIN_POSITIVE
discard_small(item) == item.fdelta <= 1

\* a variant that also gives up below a depth: if fdelta == 0.0 || ply >= 8
discard_deep(item) == item.fdelta = 0 \/ item.ply >= 8

\* if fdelta == 0.0 { continue; }
discard(item) == item.fdelta = 0

\* a variant that counts plies, not moves: ply as f64 * fdelta
book_length_plies(item) == FMul(AsF64(item.ply), item.fdelta)

\* (ply / 2) as f64 * fdelta
book_length(item) == FMul(AsF64(item.ply \div 2), item.fdelta)

\* one iteration of the while loop: pop, and unless the mass is 0.0 update
\* the position and push an item per transition
UpdateStep(me) ==
    /\ pc = <<"loop", me>>
    /\ positions_to_update # <<>>
    /\ steps < MaxSteps
    /\ steps' = steps + 1
    /\ LET n == Len(positions_to_update)
           item == positions_to_update[n]
           rest == SubSeq(positions_to_update, 1, n - 1)
           map == position(tree[me], item.fen)
           pos == map[Key(item.fen)]
       IN  IF discard(item)
           THEN /\ positions_to_update' = rest
                /\ UNCHANGED <<tree, average_book_length>>
           ELSE /\ average_book_length' =
                      IF Turn(pos.fen.fen_str) = me /\ transition_count(pos) = 0
                      THEN [average_book_length EXCEPT ![me] = @ + book_length(item)]
                      ELSE average_book_length
                /\ tree' = [tree EXCEPT ![me] =
                      [map EXCEPT ![Key(item.fen)] =
                          set_sequence(increase_frequency(pos, item.fdelta),
                                       item.sequence)]]
                /\ positions_to_update' =
                      rest \o pushed(pos, item,
                                     IF Key(item.fen) \in DOMAIN iteration
                                     THEN iteration[Key(item.fen)] ELSE <<>>)
    /\ UNCHANGED <<report, opt, pc, result, files, games, cur, log, iteration,
                   opening_book, disk, probe>>

\* the work-list is empty: the function returns
UpdateReturn(me) ==
    /\ pc = <<"loop", me>>
    /\ positions_to_update = <<>>
    /\ pc' = IF me = "White" THEN <<"update", "Black">> ELSE <<"report">>
    /\ steps' = 0
    /\ iteration' = EmptyMap
    /\ UNCHANGED <<report, opt, result, files, games, cur, log, tree, average_book_length,
                   positions_to_update, opening_book, disk, probe>>

-----------------------------------------------------------------------------
(* The recommendations *)

\* RepertoireOptimizer::own_positions: the keys of the positions at which
\* the owner is to move
own_positions(map, me) == {k \in DOMAIN map : Turn(map[k].fen.fen_str) = me}

\* the closures of Vec::retain: |pos| pos.transition_count() == 0, > 0, > 1
kept(pos, by) ==
    CASE by = "addition" -> transition_count(pos) = 0
      [] by = "removal" -> transition_count(pos) > 0
      [] by = "narrowing" -> transition_count(pos) > 1
      [] by = "reduction" -> transition_count(pos) > 1

\* Vec::retain
RECURSIVE retain(_, _)
retain(positions, by) ==
    IF positions = <<>> THEN <<>>
    ELSE (IF kept(Head(positions), by) THEN <<Head(positions)>> ELSE <<>>)
         \o retain(Tail(positions), by)

\* a variant with the keys of narrowing and reduction exchanged
sort_key_exchanged(pos, by) ==
    CASE by = "addition" -> pos.frequency
      [] by = "removal" -> pos.frequency
      [] by = "narrowing" -> FMul(pos.frequency, AsF64(transition_count(pos)))
      [] by = "reduction" -> FDiv(pos.frequency, AsF64(transition_count(pos)))

\* the value that the closure of each sort_by forms of a position
sort_key(pos, by) ==
    CASE by = "addition" -> pos.frequency
      [] by = "removal" -> pos.frequency
      [] by = "narrowing" -> FDiv(pos.frequency, AsF64(transition_count(pos)))
      [] by = "reduction" -> FMul(pos.frequency, AsF64(transition_count(pos)))

\* a variant that compares a with b in every closure
rank_ascending(pos, by) == sort_key(pos, by)

\* the order of each sort_by: a.partial_cmp(b) sorts by the key, and
\* b.partial_cmp(a), of addition and reduction, by its opposite
rank(pos, by) ==
    IF by \in {"addition", "reduction"} THEN 0 - sort_key(pos, by)
    ELSE sort_key(pos, by)

\* slice::sort_by, a stable sort: equal elements keep their order
RECURSIVE sort_by(_, _)
sort_by(positions, by) ==
    IF positions = <<>> THEN <<>>
    ELSE LET n == Len(positions)
             last == positions[n]
             sorted == sort_by(SubSeq(positions, 1, n - 1), by)
             stay == {i \in 1..(n - 1) : rank(sorted[i], by) <= rank(last, by)}
         IN  SubSeq(sorted, 1, Cardinality(stay)) \o <<last>>
             \o SubSeq(sorted, Cardinality(stay) + 1, n - 1)

\* Vec::truncate
truncate(positions, count) ==
    SubSeq(positions, 1, IF count < Len(positions) THEN count ELSE Len(positions))

\* a variant that truncates before it sorts
recommend_for_addition_early(positions, count) ==
    sort_by(truncate(retain(positions, "addition"), count), "addition")

recommend_for_addition(positions, count) ==
    truncate(sort_by(retain(positions, "addition"), "addition"), count)

recommend_for_removal(positions, count) ==
    truncate(sort_by(retain(positions, "removal"), "removal"), count)

recommend_for_narrowing(positions, count) ==
    truncate(sort_by(retain(positions, "narrowing"), "narrowing"), count)

recommend_for_reduction(positions, count) ==
    truncate(sort_by(retain(positions, "reduction"), "reduction"), count)

-----------------------------------------------------------------------------
(* main *)

NoReport == [printed |-> FALSE]

ShortKey(at, side) == <<at, side, "KQkq", "-">>

Corrupt == [exists |-> TRUE, valid |-> FALSE, data |-> {}]

\* the cache file an earlier run has saved
Saved ==
    [exists |-> TRUE, valid |-> TRUE,
     data |-> {<<ShortKey("e4", "b"), <<BookMove("e7e5", One)>>>>,
               <<ShortKey("init", "w"), <<BookMove("g1f3", One)>>>>}]

\* main: the cache file is loaded if one is given and exists
MainLoad ==
    /\ pc = <<"load">>
    /\ IF opt.cache_file /\ disk.exists
       THEN \E readable \in BOOLEAN :
               LET r == CacheLoad(opening_book,
                                  [readable |-> readable, valid |-> disk.valid,
                                   data |-> disk.data])
               IN  IF r.ok
                   THEN /\ opening_book' = r.book
                        /\ probe' = ProbeLoad(probe, TRUE)
                        /\ pc' = <<"import", "White">>
                        /\ result' = result
                   ELSE /\ pc' = <<"exit">>
                        /\ result' = r.err
                        /\ UNCHANGED <<opening_book, probe>>
       ELSE /\ pc' = <<"import", "White">>
            /\ UNCHANGED <<opening_book, probe, result>>
    /\ UNCHANGED <<report, opt, files, games, cur, log, tree, average_book_length,
                   positions_to_update, steps, iteration, disk>>

\* main: the statistics are printed; they do not depend on the order in
\* which the positions come.  The recommendations that are printed after
\* them are the recommend_for_ functions of these positions
MainReport ==
    /\ pc = <<"report">>
    /\ pc' = <<"save">>
    /\ LET positions == SetToSeq({tree["White"][k] :
                                    k \in own_positions(tree["White"], "White")})
                         \o SetToSeq({tree["Black"][k] :
                                       k \in own_positions(tree["Black"], "Black")})
       IN  report' =
             [printed |-> TRUE,
              average_book_length |->
                  FDiv(average_book_length["White"] + average_book_length["Black"],
                       AsF64(2)),
              spans |-> Len(retain(positions, "removal")),
              unprepared |-> Len(retain(positions, "addition"))]
    /\ UNCHANGED <<opt, result, files, games, cur, log, tree, average_book_length,
                   positions_to_update, steps, iteration, opening_book, disk, probe>>

\* main: the cache is saved if a file is given and the cache has changed;
\* File::create truncates the file before anything is written
MainSave ==
    /\ pc = <<"save">>
    /\ pc' = <<"exit">>
    /\ IF opt.cache_file /\ has_changed(opening_book)
       THEN \E io \in {"ok", "create fails", "write fails"} :
               LET r == CacheSave(opening_book, io = "ok")
               IN  /\ opening_book' = r.book
                   /\ probe' = IF r.ok THEN ProbeSave(probe, opening_book.cache)
                               ELSE IF io = "create fails" THEN probe
                               ELSE ProbeSpoil(probe)
                   /\ disk' = IF r.ok
                              THEN [exists |-> TRUE, valid |-> TRUE, data |-> r.data]
                              ELSE IF io = "create fails" THEN disk
                              ELSE Corrupt
                   /\ result' = IF r.ok THEN [kind |-> "Ok"] ELSE r.err
       ELSE /\ result' = [kind |-> "Ok"]
            /\ UNCHANGED <<opening_book, probe, disk>>
    /\ UNCHANGED <<report, opt, files, games, cur, log, tree, average_book_length,
                   positions_to_update, steps, iteration>>

Init ==
    /\ opt \in [repertoire : Repertoires, cache_file : BOOLEAN]
    /\ disk \in IF opt.cache_file THEN {NoFile, Corrupt, Saved} ELSE {NoFile}
    /\ pc = <<"load">>
    /\ result = [kind |-> "None"]
    /\ files = opt.repertoire
    /\ games = <<>>
    /\ cur = NoGame
    /\ log = <<>>
    /\ tree = [me \in Players |-> EmptyMap]
    /\ average_book_length = [me \in Players |-> 0]
    /\ positions_to_update = <<>>
    /\ steps = 0
    /\ iteration = EmptyMap
    /\ opening_book = CacheNew
    /\ probe = ProbeNew
    /\ report = NoReport

Next ==
    \/ MainLoad
    \/ \E me \in Players : ReadGames(me)
    \/ \E me \in Players : BeginGame(me)
    \/ \E me \in Players : GameMove(me)
    \/ \E me \in Players : EndGame(me)
    \/ \E me \in Players : ImportDone(me)
    \/ \E me \in Players : AddOpponentsMovesFromBook(me)
    \/ \E me \in Players : SetOwnMoveFrequencies(me)
    \/ \E me \in Players : UpdateBegin(me)
    \/ \E me \in Players : UpdateStep(me)
    \/ \E me \in Players : UpdateReturn(me)
    \/ MainReport
    \/ MainSave

Spec == Init /\ [][Next]_vars

\* main is one thread: a loop that can take its next step takes it
FairSpec == Spec /\ \A me \in Players : WF_vars(UpdateStep(me))

-----------------------------------------------------------------------------
(* The Cache driven through its interface, as its tests drive it *)

MaxOps == 4

\* the positions asked for: the starting board, the same position with other
\* counters, one that differs in the castling rights, and two more
QueryFens ==
    {StartingBoard,
     FenNew(<<"init", "w", "KQkq", "-", 3, 7>>),
     FenNew(<<"init", "w", "-", "-", 0, 1>>),
     FenNew(<<"e4", "b", "KQkq", "-", 0, 1>>),
     FenNew(<<"Nf3", "b", "KQkq", "-", 1, 1>>)}

ApiOp == pc = <<"api">> /\ probe.ops < MaxOps

Idle == UNCHANGED <<opt, pc, result, files, games, cur, log, tree,
                    average_book_length, positions_to_update, steps, iteration,
                    report>>

\* cache.moves(&fen)
ApiMoves ==
    /\ ApiOp
    /\ \E fen \in QueryFens : \E answer \in ProviderAnswers(fen) :
          LET res == CacheMoves(opening_book, fen, answer)
          IN  /\ opening_book' = res.book
              /\ probe' = [ProbeQuery(probe, fen, res) EXCEPT !.ops = @ + 1]
    /\ UNCHANGED disk
    /\ Idle

\* cache.save(&mut data)
ApiSave ==
    /\ ApiOp
    /\ \E writable \in BOOLEAN :
          LET r == CacheSave(opening_book, writable)
          IN  /\ opening_book' = r.book
              /\ disk' = IF r.ok
                         THEN [exists |-> TRUE, valid |-> TRUE, data |-> r.data]
                         ELSE Corrupt
              /\ probe' = [(IF r.ok THEN ProbeSave(probe, opening_book.cache)
                                    ELSE ProbeSpoil(probe)) EXCEPT !.ops = @ + 1]
    /\ Idle

\* cache.load(&data[..]), of the bytes last written or of other bytes
ApiLoad ==
    /\ ApiOp
    /\ \E readable \in BOOLEAN :
       \E source \in {d \in {disk, Corrupt, Saved} : d.exists} :
          LET r == CacheLoad(opening_book,
                             [readable |-> readable, valid |-> source.valid,
                              data |-> source.data])
          IN  /\ opening_book' = r.book
              /\ probe' = [(IF r.ok THEN ProbeLoad(probe, source = disk)
                                    ELSE [probe EXCEPT !.loaded = FALSE])
                              EXCEPT !.ops = @ + 1]
    /\ UNCHANGED disk
    /\ Idle

\* Cache::new(book): another cache, in front of another provider
ApiNew ==
    /\ ApiOp
    /\ opening_book' = CacheNew
    /\ probe' = [ProbeNew EXCEPT !.ops = probe.ops + 1, !.saved = probe.saved]
    /\ UNCHANGED disk
    /\ Idle

CacheInit ==
    /\ opt = [repertoire |-> [me \in Players |-> <<>>], cache_file |-> TRUE]
    /\ disk = NoFile
    /\ pc = <<"api">>
    /\ result = [kind |-> "None"]
    /\ files = opt.repertoire
    /\ games = <<>>
    /\ cur = NoGame
    /\ log = <<>>
    /\ tree = [me \in Players |-> EmptyMap]
    /\ average_book_length = [me \in Players |-> 0]
    /\ positions_to_update = <<>>
    /\ steps = 0
    /\ iteration = EmptyMap
    /\ opening_book = CacheNew
    /\ probe = ProbeNew
    /\ report = NoReport

CacheNext == ApiMoves \/ ApiSave \/ ApiLoad \/ ApiNew

CacheSpec == CacheInit /\ [][CacheNext]_vars

-----------------------------------------------------------------------------
(* The calls of a Cache with what they return *)

CallOp == pc = <<"call">> /\ probe.ops < MaxOps

\* the call made last, and the cache as it was before it
Called(call) == [active |-> TRUE, call |-> call, book |-> opening_book]

Rest == UNCHANGED <<opt, pc, files, games, log, tree, average_book_length,
                    positions_to_update, steps, iteration, report>>

\* cache.moves(&fen), which returns the moves and no Result
CallMoves ==
    /\ CallOp
    /\ \E fen \in QueryFens : \E answer \in ProviderAnswers(fen) :
          opening_book' = CacheMoves(opening_book, fen, answer).book
    /\ cur' = Called("moves")
    /\ result' = [kind |-> "None"]
    /\ probe' = [probe EXCEPT !.ops = @ + 1]
    /\ UNCHANGED disk
    /\ Rest

\* cache.load(source), of a reader that fails, of bytes that do not decode,
\* or of the bytes of a cache
CallLoad ==
    /\ CallOp
    /\ \E readable \in BOOLEAN :
       \E source \in {d \in {disk, Corrupt, Saved} : d.exists} :
          LET r == CacheLoad(opening_book,
                             [readable |-> readable, valid |-> source.valid,
                              data |-> source.data])
          IN  /\ opening_book' = r.book
              /\ result' = IF r.ok THEN [kind |-> "Ok"] ELSE r.err
    /\ cur' = Called("load")
    /\ probe' = [probe EXCEPT !.ops = @ + 1]
    /\ UNCHANGED disk
    /\ Rest

\* cache.save(destination), of a writer that fails or takes the bytes
CallSave ==
    /\ CallOp
    /\ \E writable \in BOOLEAN :
          LET r == CacheSave(opening_book, writable)
          IN  /\ opening_book' = r.book
              /\ result' = IF r.ok THEN [kind |-> "Ok"] ELSE r.err
              /\ disk' = IF r.ok
                         THEN [exists |-> TRUE, valid |-> TRUE, data |-> r.data]
                         ELSE Corrupt
    /\ cur' = Called("save")
    /\ probe' = [probe EXCEPT !.ops = @ + 1]
    /\ Rest

CallInit ==
    /\ opt = [repertoire |-> [me \in Players |-> <<>>], cache_file |-> TRUE]
    /\ disk = NoFile
    /\ pc = <<"call">>
    /\ result = [kind |-> "None"]
    /\ files = opt.repertoire
    /\ games = <<>>
    /\ cur = NoGame
    /\ log = <<>>
    /\ tree = [me \in Players |-> EmptyMap]
    /\ average_book_length = [me \in Players |-> 0]
    /\ positions_to_update = <<>>
    /\ steps = 0
    /\ iteration = EmptyMap
    /\ opening_book = CacheNew
    /\ probe = ProbeNew
    /\ report = NoReport

CallNext == CallMoves \/ CallLoad \/ CallSave

CallSpec == CallInit /\ [][CallNext]_vars

-----------------------------------------------------------------------------
(* The recommendations applied to lists of positions *)

\* longest list of positions
MaxList == 2

\* the f64 nearest to the decimal fraction n/d
Decimal(n, d) == RoundHalfEven(n * One, d)

\* frequencies of the positions: 0.2, 0.6 and 1.0
RankFrequencies == {Decimal(2, 10), Decimal(6, 10), One}

\* numbers of prepared moves of the positions
RankCounts == {0, 1, 2, 3}

RankNames == <<"p1", "p2", "p3", "p4", "p5">>

\* a position of the owner with n prepared moves, as the normalizer leaves
\* them, and the given frequency
RankPosition(name, frequency, n) ==
    [fen |-> FenNew(<<name, "w", "KQkq", "-", 0, 1>>),
     frequency |-> frequency,
     transitions |->
        [d \in {ShortKey(<<name, i>>, "b") : i \in 1..n} |->
            [fen |-> FenNew(<<d[1], "b", "KQkq", "-", 0, 1>>),
             mv |-> ModelMove(mv_e4),
             frequency |-> FDiv(One, AsF64(n))]],
     likeliest_sequence |-> [moves |-> <<>>, frequency |-> 0]]

\* the maps of up to MaxList such positions
RankMaps ==
    UNION {{[k \in {ShortKey(RankNames[i], "w") : i \in 1..n} |->
                LET i == CHOOSE j \in 1..n : ShortKey(RankNames[j], "w") = k
                IN  RankPosition(RankNames[i], c[i][1], c[i][2])] :
             c \in [1..n -> RankFrequencies \X RankCounts]} : n \in 0..MaxList}

recommend(by, positions, count) ==
    CASE by = "addition" -> recommend_for_addition(positions, count)
      [] by = "removal" -> recommend_for_removal(positions, count)
      [] by = "narrowing" -> recommend_for_narrowing(positions, count)
      [] by = "reduction" -> recommend_for_reduction(positions, count)

\* own_positions() in the order the HashMap yields them, and one of the
\* recommend_for_ functions of these positions and a count
Recommend(by) ==
    /\ pc = <<"rank">>
    /\ pc' = <<"ranked">>
    /\ \E own \in Orders(own_positions(tree["White"], "White")) :
       \E count \in 0..(MaxList + 1) :
          LET positions == [i \in 1..Len(own) |-> tree["White"][own[i]]]
              list == recommend(by, positions, count)
          IN  report' = [printed |-> TRUE, by |-> by, positions |-> positions,
                         count |-> count, list |-> list,
                         keys |-> [i \in 1..Len(list) |-> sort_key(list[i], by)]]
    /\ UNCHANGED <<opt, result, files, games, cur, log, tree, average_book_length,
                   positions_to_update, steps, iteration, opening_book, disk, probe>>

RecommendForAddition == Recommend("addition")

RecommendForRemoval == Recommend("removal")

RecommendForNarrowing == Recommend("narrowing")

RecommendForReduction == Recommend("reduction")

RankInit ==
    /\ opt = [repertoire |-> [me \in Players |-> <<>>], cache_file |-> FALSE]
    /\ disk = NoFile
    /\ pc = <<"rank">>
    /\ result = [kind |-> "None"]
    /\ files = opt.repertoire
    /\ games = <<>>
    /\ cur = NoGame
    /\ log = <<>>
    /\ tree \in {[White |-> m, Black |-> EmptyMap] : m \in RankMaps}
    /\ average_book_length = [me \in Players |-> 0]
    /\ positions_to_update = <<>>
    /\ steps = 0
    /\ iteration = EmptyMap
    /\ opening_book = CacheNew
    /\ probe = ProbeNew
    /\ report = NoReport

RankNext ==
    \/ RecommendForAddition
    \/ RecommendForRemoval
    \/ RecommendForNarrowing
    \/ RecommendForReduction

RankSpec == RankInit /\ [][RankNext]_vars

-----------------------------------------------------------------------------
(* Fen::new applied to strings of characters *)

\* longest description string
MaxFenLen == 5

\* the characters of the description strings
FenChars == {"a", "D", " "}

\* the strings handed to Fen::new
FenStrings == UNION {[1..n -> FenChars] : n \in 0..MaxFenLen}

\* str::rfind(' '): the byte index of the last space, counted from 0
rfind(str) ==
    LET at == {i \in 1..Len(str) : str[i] = " "}
    IN  IF at = {} THEN [some |-> FALSE]
        ELSE [some |-> TRUE,
              index |-> (CHOOSE i \in at : \A j \in at : j <= i) - 1]

\* Option::unwrap of None
Panic == [ok |-> FALSE, kind |-> "Panic"]

\* a variant that cuts at the last space: truncate(last_space_index)
Fen_new_last(fen_str) ==
    LET last == rfind(fen_str)
    IN  IF ~last.some THEN Panic
        ELSE LET second == rfind(SubSeq(fen_str, 1, last.index))
             IN  IF ~second.some THEN Panic
                 ELSE [ok |-> TRUE,
                       fen |-> [fen_str |-> fen_str,
                                shortened_fen_str |->
                                    SubSeq(fen_str, 1, last.index)]]

\* Fen::new of a string of characters: both rfind results are unwrapped, and
\* the copy is truncated to the bytes before the second-to-last space
Fen_new(fen_str) ==
    LET last == rfind(fen_str)
    IN  IF ~last.some THEN Panic
        ELSE LET second == rfind(SubSeq(fen_str, 1, last.index))
             IN  IF ~second.some THEN Panic
                 ELSE [ok |-> TRUE,
                       fen |-> [fen_str |-> fen_str,
                                shortened_fen_str |->
                                    SubSeq(fen_str, 1, second.index)]]

\* Fen::new(fen_str) is called with the string at hand
FenNewCall ==
    /\ pc = <<"fen">>
    /\ pc' = <<"fen made">>
    /\ LET made == Fen_new(cur.fen_str)
       IN  /\ report' = [printed |-> FALSE, made |-> made]
           /\ result' = IF made.ok THEN result ELSE [kind |-> made.kind]
    /\ UNCHANGED <<opt, files, games, cur, log, tree, average_book_length,
                   positions_to_update, steps, iteration, opening_book, disk, probe>>

FenInit ==
    /\ opt = [repertoire |-> [me \in Players |-> <<>>], cache_file |-> FALSE]
    /\ disk = NoFile
    /\ pc = <<"fen">>
    /\ result = [kind |-> "None"]
    /\ files = opt.repertoire
    /\ games = <<>>
    /\ cur \in {[active |-> FALSE, fen_str |-> str] : str \in FenStrings}
    /\ log = <<>>
    /\ tree = [me \in Players |-> EmptyMap]
    /\ average_book_length = [me \in Players |-> 0]
    /\ positions_to_update = <<>>
    /\ steps = 0
    /\ iteration = EmptyMap
    /\ opening_book = CacheNew
    /\ probe = ProbeNew
    /\ report = NoReport

FenNext == FenNewCall

FenSpec == FenInit /\ [][FenNext]_vars

-----------------------------------------------------------------------------
(* The book provider Lichess (opening_book/lichess.rs) *)

\* requests of one query that are counted; the count stays at this number
\* when more are made (the code does not count them)
MaxRequests == 3

\* thread::sleep(time::Duration::from_secs(10))
RetryDelay == 10

\* Lichess::url: the whole description goes into the address, spaces
\* escaped, followed by the fixed parameters
Url(fen_str) ==
    [fen |-> fen_str, moves |-> 20, variant |-> "standard"]

\* struct Move, as the provider's JSON gives it; uci and san are strings of
\* characters
LichessMove(uci, san, white, draws, black) ==
    [uci |-> uci, san |-> san, white |-> white, draws |-> draws, black |-> black]

\* struct Book; top_games is not read
LichessBook(white, draws, black, moves) ==
    [white |-> white, draws |-> draws, black |-> black, moves |-> moves]

\* bodies of OK responses: books of the provider, and bytes that are no Book
LichessBodies ==
    { [json |-> TRUE, book |-> LichessBook(0, 0, 0, <<>>)],
      [json |-> TRUE,
       book |-> LichessBook(1, 1, 2,
                   <<LichessMove(<<"e", "2", "e", "4">>, <<"e", "4">>, 1, 1, 0),
                     LichessMove(<<"e", "1", "h", "1">>, <<"O", "-", "O">>, 0, 0, 2)>>)],
      [json |-> TRUE,
       book |-> LichessBook(2, 0, 1,
                   <<LichessMove(<<"e", "1", "a", "1">>, <<"O", "-", "O", "-", "O">>,
                                 1, 0, 0)>>)],
      [json |-> FALSE] }

\* the status codes of the responses
StatusCodes == {"OK", "TOO_MANY_REQUESTS", "NOT_FOUND", "INTERNAL_SERVER_ERROR"}

\* str::replace of one character by another
replace(str, from, to) ==
    [i \in 1..Len(str) |-> IF str[i] = from THEN to ELSE str[i]]

\* str::starts_with
starts_with(str, prefix) ==
    Len(str) >= Len(prefix) /\ SubSeq(str, 1, Len(prefix)) = prefix

\* Lichess::convert_to_pleco_uci
convert_to_pleco_uci(uci, san) ==
    IF starts_with(san, <<"O", "-", "O">>)
    THEN replace(replace(uci, "a", "c"), "h", "g")
    ELSE uci

\* a variant in which the rate limit is an error like the others
matched_strict(status, body) ==
    CASE status = "OK" ->
            IF body.json THEN [to |-> "return", got |-> [ok |-> TRUE, book |-> body.book]]
            ELSE [to |-> "panic"]
      [] OTHER -> [to |-> "return", got |-> [ok |-> FALSE, err |-> [kind |-> "Http"]]]

\* get_url: the match on response.status()
matched(status, body) ==
    CASE status = "OK" ->
            IF body.json THEN [to |-> "return", got |-> [ok |-> TRUE, book |-> body.book]]
            ELSE [to |-> "panic"]
      [] status = "TOO_MANY_REQUESTS" -> [to |-> "sleep"]
      [] OTHER -> [to |-> "return", got |-> [ok |-> FALSE, err |-> [kind |-> "Http"]]]

\* what a request meets: no response at all, or a response; a provider that
\* is limiting answers every request with TOO_MANY_REQUESTS
Outcomes(limiting) ==
    IF limiting
    THEN {[sent |-> TRUE, status |-> "TOO_MANY_REQUESTS", body |-> [json |-> FALSE]]}
    ELSE {[sent |-> FALSE]}
         \cup {[sent |-> TRUE, status |-> "OK", body |-> b] : b \in LichessBodies}
         \cup {[sent |-> TRUE, status |-> c, body |-> [json |-> FALSE]] :
                  c \in StatusCodes \ {"OK", "TOO_MANY_REQUESTS"}}

\* the count of requests goes up to MaxRequests
Counted(n) == IF n < MaxRequests THEN n + 1 ELSE n

\* one call of get_url up to the arms of the match: the request is sent;
\* send()? returns the error of the transport
GetUrl ==
    /\ pc = <<"get_url">>
    /\ \E o \in Outcomes(probe.limiting) :
          /\ probe' = [probe EXCEPT !.requests = Counted(@),
                                    !.url = cur.url,
                                    !.outcome = o]
          /\ IF ~o.sent
             THEN /\ cur' = [cur EXCEPT !.got = [ok |-> FALSE,
                                                 err |-> [kind |-> "Reqwest"]]]
                  /\ pc' = <<"unwrap">>
                  /\ result' = result
             ELSE LET m == matched(o.status, o.body)
                  IN  CASE m.to = "return" ->
                              /\ cur' = [cur EXCEPT !.got = m.got]
                              /\ pc' = <<"unwrap">>
                              /\ result' = result
                        [] m.to = "sleep" ->
                              /\ cur' = cur
                              /\ pc' = <<"sleep">>
                              /\ result' = result
                        [] m.to = "panic" ->
                              /\ cur' = cur
                              /\ pc' = <<"exit">>
                              /\ result' = [kind |-> "Panic"]
    /\ UNCHANGED <<opt, files, games, log, tree, average_book_length,
                   positions_to_update, steps, iteration, opening_book, disk, report>>

\* the arm of TOO_MANY_REQUESTS: the thread sleeps, then get_url calls
\* itself with the url it was given
Sleep ==
    /\ pc = <<"sleep">>
    /\ pc' = <<"get_url">>
    /\ probe' = [probe EXCEPT !.slept = IF @ < MaxRequests * RetryDelay
                                        THEN @ + RetryDelay ELSE @]
    /\ UNCHANGED <<opt, result, files, games, cur, log, tree, average_book_length,
                   positions_to_update, steps, iteration, opening_book, disk, report>>

\* impl OpeningBook for Lichess: moves, from the unwrap of what get_url
\* returned on; a panic unwinds through Cache::moves,
\* add_opponents_moves_from_book and main
LichessMoves ==
    /\ pc = <<"unwrap">>
    /\ IF cur.got.ok
       THEN LET book == cur.got.book
                total_games == AsF64(book.white + book.draws + book.black)
            IN  /\ report' =
                      [printed |-> FALSE,
                       moves |-> [i \in 1..Len(book.moves) |->
                                    LET mv == book.moves[i]
                                    IN  BookMove(convert_to_pleco_uci(mv.uci, mv.san),
                                                 FDiv(AsF64(mv.white + mv.draws + mv.black),
                                                      total_games))]]
                /\ pc' = <<"returned">>
                /\ result' = result
       ELSE /\ report' = report
            /\ pc' = <<"exit">>
            /\ result' = [kind |-> "Panic"]
    /\ UNCHANGED <<opt, files, games, cur, log, tree, average_book_length,
                   positions_to_update, steps, iteration, opening_book, disk, probe>>

\* the provider begins or ceases to limit the rate while a query runs
ProviderTurns ==
    /\ pc \in {<<"get_url">>, <<"sleep">>}
    /\ probe' = [probe EXCEPT !.limiting = ~@]
    /\ UNCHANGED <<opt, pc, result, files, games, cur, log, tree,
                   average_book_length, positions_to_update, steps, iteration,
                   opening_book, disk, report>>

\* Lichess::moves(fen) has been called and calls get_url(&self.url(..))
LichessInit ==
    /\ opt = [repertoire |-> [me \in Players |-> <<>>], cache_file |-> FALSE]
    /\ disk = NoFile
    /\ pc = <<"get_url">>
    /\ result = [kind |-> "None"]
    /\ files = opt.repertoire
    /\ games = <<>>
    /\ cur \in {[active |-> FALSE, fen |-> fen, url |-> Url(fen.fen_str),
                 got |-> [ok |-> FALSE, err |-> [kind |-> "None"]]] :
                   fen \in QueryFens}
    /\ log = <<>>
    /\ tree = [me \in Players |-> EmptyMap]
    /\ average_book_length = [me \in Players |-> 0]
    /\ positions_to_update = <<>>
    /\ steps = 0
    /\ iteration = EmptyMap
    /\ opening_book = CacheNew
    /\ probe \in {[limiting |-> l, requests |-> 0, slept |-> 0, url |-> Url(<<>>),
                   outcome |-> [sent |-> FALSE]] : l \in BOOLEAN}
    /\ report = NoReport

LichessNext == GetUrl \/ Sleep \/ LichessMoves \/ ProviderTurns

LichessSpec == LichessInit /\ [][LichessNext]_vars

\* the thread of the query runs: a step it can take is taken
LichessFairSpec ==
    LichessSpec /\ WF_vars(GetUrl) /\ WF_vars(Sleep) /\ WF_vars(LichessMoves)

-----------------------------------------------------------------------------
(* The sums of update_position_frequencies for masses of ordinary size     *)
(*                                                                         *)
(* Near the least positive float, where the sections above place the       *)
(* masses to reach the underflow, f64 sums are exact.  For masses of        *)
(* ordinary size, a sum is rounded to the significand.  Here a value is a   *)
(* multiple of 2^-(Precision + 1) kept to Precision significant bits, as    *)
(* an f64 in [0, 1] that is a multiple of 2^-54 is kept to 53.              *)

\* bits of the significand
Precision == 3

\* items on the work-list at most
MaxArrivals == 3

\* 1.0 in this section
Whole == 2 * Pow2(Precision)

\* the number of bits of a positive integer
RECURSIVE BitLen(_)
BitLen(n) == IF n = 0 THEN 0 ELSE 1 + BitLen(n \div 2)

\* the nearest value of Precision significant bits, ties to even
RoundSig(n) ==
    IF n < Pow2(Precision) THEN n
    ELSE LET q == Pow2(BitLen(n) - Precision)
         IN  RoundHalfEven(n, q) * q

\* a + b on f64
FAdd(a, b) == RoundSig(a + b)

\* n as f64 * b, for a small integer n
FTimes(n, b) == RoundSig(n * b)

\* the iteration of the while loop for an item of non-zero mass whose
\* position is the owner's and has no transitions: the book length and the
\* frequency are added to, the sequence is set, nothing is pushed
update_leaf(st, item) ==
    LET map == position(st.map, item.fen)
        pos == map[Key(item.fen)]
    IN  [map |-> [map EXCEPT ![Key(item.fen)] =
                     set_sequence([pos EXCEPT !.frequency = FAdd(@, item.fdelta)],
                                  item.sequence)],
         average_book_length |->
             FAdd(st.average_book_length, FTimes(item.ply \div 2, item.fdelta))]

\* the loop on a work-list of such items, popped from the end
RECURSIVE update_leaves(_, _)
update_leaves(st, list) ==
    IF list = <<>> THEN st
    ELSE update_leaves(update_leaf(st, list[Len(list)]),
                       SubSeq(list, 1, Len(list) - 1))

\* the masses that arrive: 2^-(Precision + 1), twice that, and 0.5
SumMasses == {1, 2, Pow2(Precision)}

\* positions of White after a reply of Black to 1.e4
SumNames == <<"e4_e5", "e4_Nf6", "e4_c5", "e4_e6", "e4_d5">>

SumFens ==
    {FenNew(<<SumNames[i], "w", "KQkq", "-", 0, 2>>) : i \in 1..MaxArrivals}

RECURSIVE SumOf(_)
SumOf(list) == IF list = <<>> THEN 0 ELSE Head(list).fdelta + SumOf(Tail(list))

\* the work-lists that the expansion of the position after 1.e4 leaves: an
\* item at ply 2 for each of some of these positions, in the order the
\* HashMap of the transitions yielded them, of masses that sum to 1.0 at most
SumLists ==
    {l \in UNION {[1..n -> {FrequencyDelta(fen, fdelta, 2,
                                <<ModelMove(mv_e4), UCI("reply")>>) :
                               fen \in SumFens, fdelta \in SumMasses}] :
                     n \in 0..MaxArrivals} :
        /\ SumOf(l) <= Whole
        /\ \A i, j \in DOMAIN l : i # j => Key(l[i].fen) # Key(l[j].fen)}

\* one iteration of the loop
SumStep ==
    /\ pc = <<"sum">>
    /\ positions_to_update # <<>>
    /\ LET n == Len(positions_to_update)
           st == update_leaf([map |-> tree["White"],
                              average_book_length |-> average_book_length["White"]],
                             positions_to_update[n])
       IN  /\ tree' = [tree EXCEPT !["White"] = st.map]
           /\ average_book_length' =
                 [average_book_length EXCEPT !["White"] = st.average_book_length]
           /\ positions_to_update' = SubSeq(positions_to_update, 1, n - 1)
    /\ UNCHANGED <<opt, pc, result, files, games, cur, log, steps, iteration,
                   opening_book, disk, probe, report>>

SumInit ==
    /\ opt = [repertoire |-> [me \in Players |-> <<>>], cache_file |-> FALSE]
    /\ disk = NoFile
    /\ pc = <<"sum">>
    /\ result = [kind |-> "None"]
    /\ files = opt.repertoire
    /\ games = <<>>
    /\ positions_to_update \in SumLists
    /\ cur = [active |-> FALSE, pushed |-> positions_to_update]
    /\ log = <<>>
    /\ tree = [me \in Players |-> EmptyMap]
    /\ average_book_length = [me \in Players |-> 0]
    /\ steps = 0
    /\ iteration = EmptyMap
    /\ opening_book = CacheNew
    /\ probe = ProbeNew
    /\ report = NoReport

SumNext == SumStep

SumSpec == SumInit /\ [][SumNext]_vars

-----------------------------------------------------------------------------
(* update_position_frequencies on graphs as the augmentation and the       *)
(* normalizer can leave them                                               *)

\* a position of a graph, with its edges: records of the destination's
\* name, the side to move there, the move and the weight
FlowPosition(name, side, edges) ==
    [fen |-> FenNew(<<name, side, "KQkq", "-", 0, 1>>),
     frequency |-> 0,
     transitions |->
        [d \in {ShortKey(e.to, e.side) : e \in edges} |->
            LET e == CHOOSE x \in edges : ShortKey(x.to, x.side) = d
            IN  [fen |-> FenNew(<<e.to, e.side, "KQkq", "-", 0, 1>>),
                 mv |-> e.mv, frequency |-> e.frequency]],
     likeliest_sequence |-> [moves |-> <<>>, frequency |-> 0]]

FlowEdge(to, side, mv, frequency) ==
    [to |-> to, side |-> side, mv |-> mv, frequency |-> frequency]

\* the weights of two moves of a book: f64 in [0, 1] that sum to 1.0 at most
BookWeights == {w \in (0..One) \X (0..One) : w[1] + w[2] <= One}

\* White's graph: one prepared first move; the book's two replies to it,
\* of weights w[1] and w[2]; after the first, n prepared moves of White
\* with the weights of the normalizer; after each of them one reply of the
\* book, of weights r[1] and r[2], both to one position if `joined`
FlowGraph(w, n, r, joined) ==
    LET own(k) == FDiv(One, AsF64(k))
        last == IF joined THEN "l1" ELSE "l2"
        ps == {FlowPosition("init", "w",
                   {FlowEdge("a", "b", ModelMove(mv_e4), own(1))}),
               FlowPosition("a", "b",
                   {FlowEdge("x", "w", UCI("e7e5"), w[1]),
                    FlowEdge("y", "w", UCI("g8f6"), w[2])}),
               FlowPosition("x", "w",
                   {FlowEdge("x1", "b", ModelMove(mv_Nf3), own(n)) : i \in 1..n}
                   \cup {FlowEdge("x2", "b", ModelMove(mv_d4), own(n)) : i \in 2..n}),
               FlowPosition("y", "w", {})}
              \cup {FlowPosition("x1", "b",
                       {FlowEdge("l1", "w", UCI("g8f6"), r[1])}) : i \in 1..n}
              \cup {FlowPosition("l1", "w", {}) : i \in 1..n}
              \cup {FlowPosition("x2", "b",
                       {FlowEdge(last, "w", UCI("e7e5"), r[2])}) : i \in 2..n}
              \cup {FlowPosition(last, "w", {}) : i \in 2..n}
    IN  [k \in {Key(p.fen) : p \in ps} |-> CHOOSE p \in ps : Key(p.fen) = k]

FlowGraphs ==
    {FlowGraph(w, n, r, joined) :
        w \in BookWeights, n \in 0..2, r \in {0, Half, One} \X {0, Half, One},
        joined \in BOOLEAN}

\* main after both normalizers; Black has no repertoire
FlowInit ==
    /\ opt = [repertoire |-> [me \in Players |-> <<>>], cache_file |-> FALSE]
    /\ disk = NoFile
    /\ pc = <<"update", "White">>
    /\ result = [kind |-> "None"]
    /\ files = opt.repertoire
    /\ games = <<>>
    /\ cur = NoGame
    /\ log = <<>>
    /\ tree \in {[White |-> g, Black |-> EmptyMap] : g \in FlowGraphs}
    /\ average_book_length = [me \in Players |-> 0]
    /\ positions_to_update = <<>>
    /\ steps = 0
    /\ iteration = EmptyMap
    /\ opening_book = CacheNew
    /\ probe = ProbeNew
    /\ report = NoReport

FlowNext ==
    \/ \E me \in Players : UpdateBegin(me)
    \/ \E me \in Players : UpdateStep(me)
    \/ \E me \in Players : UpdateReturn(me)

FlowSpec == FlowInit /\ [][FlowNext]_vars

-----------------------------------------------------------------------------
(* Mass of paths *)

RootKey == Key(StartingBoard)

\* the work-list of update_position_frequencies of `me` has become empty
LoopOver(me) == pc = <<"loop", me>> /\ positions_to_update = <<>>

Weight(map, from, to) == map[from].transitions[to].frequency

\* the paths one edge longer than path a (its end and the f64 product of
\* its weights, formed from the root on) that have a non-zero product
Longer(map, a) ==
    IF a.key \notin DOMAIN map THEN <<>>
    ELSE LET ks == SetToSeq({k \in DOMAIN map[a.key].transitions :
                                FMul(a.mass, Weight(map, a.key, k)) # 0})
         IN  [i \in 1..Len(ks) |->
                [key |-> ks[i], mass |-> FMul(a.mass, Weight(map, a.key, ks[i]))]]

RECURSIVE NextLevel(_, _)
NextLevel(map, level) ==
    IF level = <<>> THEN <<>>
    ELSE Longer(map, Head(level)) \o NextLevel(map, Tail(level))

RECURSIVE MassAt(_, _)
MassAt(level, k) ==
    IF level = <<>> THEN 0
    ELSE (IF Head(level).key = k THEN Head(level).mass ELSE 0) + MassAt(Tail(level), k)

\* the sum, over the paths of the given length and longer, of the products
\* of the paths that end in k
RECURSIVE PathMass(_, _, _)
PathMass(map, level, k) ==
    IF level = <<>> THEN 0
    ELSE MassAt(level, k) + PathMass(map, NextLevel(map, level), k)

Level0 == <<[key |-> RootKey, mass |-> One]>>

\* the sum over all paths from the root to k
PathSum(map, k) == PathMass(map, Level0, k)

\* the sum over the paths that lead from the root back to the root
Returning(map) == PathMass(map, NextLevel(map, Level0), RootKey)

\* a root with two children of weight 0.5 each and no further edges
TwoChildren(map) ==
    /\ RootKey \in DOMAIN map
    /\ Cardinality(DOMAIN map[RootKey].transitions) = 2
    /\ \A k \in DOMAIN map[RootKey].transitions :
          /\ Weight(map, RootKey, k) = Half
          /\ k \in DOMAIN map => map[k].transitions = EmptyMap

FrequenciesArePathSums(map) ==
    \A k \in DOMAIN map : map[k].frequency = PathSum(map, k)

ChildrenAtHalf(map) ==
    TwoChildren(map) =>
        \A k \in DOMAIN map[RootKey].transitions :
            k \in DOMAIN map /\ map[k].frequency = Half

\* the f64 product of the weights along a path of positions, from the root on
RECURSIVE MassAlong(_, _, _)
MassAlong(map, path, mass) ==
    IF Len(path) < 2 THEN mass
    ELSE MassAlong(map, Tail(path),
                   FMul(mass, Weight(map, Key(path[1]), Key(path[2]))))

KeysOf(path) == [i \in 1..Len(path) |-> Key(path[i])]

\* two games that were added reach the same position along different paths
Transpose(me, i, j) ==
    /\ i < j
    /\ log[i].me = me /\ log[j].me = me
    /\ log[i].result.kind = "Ok" /\ log[j].result.kind = "Ok"
    /\ Key(log[i].at) = Key(log[j].at)
    /\ KeysOf(log[i].path) # KeysOf(log[j].path)

\* the (position, mass) pairs that paths of non-zero product reach from S
RECURSIVE ReachPairs(_, _)
ReachPairs(map, S) ==
    LET from(q) == {<<k, FMul(q[2], Weight(map, q[1], k))>> :
                       k \in DOMAIN map[q[1]].transitions}
        more == UNION {from(q) : q \in {q \in S : q[1] \in DOMAIN map}}
        new == {p \in more : p[2] # 0}
    IN  IF new \subseteq S THEN S ELSE ReachPairs(map, S \cup new)

\* the positions reached from the positions of S along edges of weight 1.0
\* (or more), by one edge at least
RECURSIVE UnitReach(_, _, _)
UnitReach(map, S, seen) ==
    LET next == {k \in UNION {DOMAIN map[x].transitions : x \in S \cap DOMAIN map} :
                    \E x \in S \cap DOMAIN map :
                        /\ k \in DOMAIN map[x].transitions
                        /\ Weight(map, x, k) >= One}
    IN  IF next \subseteq seen THEN seen ELSE UnitReach(map, next, seen \cup next)

\* k lies on a cycle whose weights multiply to 1.0 or more
OnUnitCycle(map, k) == k \in UnitReach(map, {k}, {})

\* a work item of non-zero mass from which a path of non-zero product leads
\* to such a cycle
LeadsToUnitCycle(map, item) ==
    /\ item.fdelta # 0
    /\ \E p \in ReachPairs(map, {<<Key(item.fen), item.fdelta>>}) :
          OnUnitCycle(map, p[1])

\* such a cycle is reached from the root with non-zero mass
CycleReached(map) ==
    /\ \E k \in DOMAIN map : OnUnitCycle(map, k)
    /\ LeadsToUnitCycle(map, FrequencyDelta(StartingBoard, One, 0, <<>>))

\* only runs around such a cycle reach the bound on the explored iterations
StepBoundAdequate ==
    \A me \in Players :
        pc = <<"loop", me>> /\ steps = MaxSteps /\ positions_to_update # <<>>
            => CycleReached(tree[me])

-----------------------------------------------------------------------------
(* Claims *)

C2_State ==
    \A me \in Players : \A i, j \in DOMAIN log :
        Transpose(me, i, j) =>
            /\ Key(log[i].at) \in DOMAIN tree[me]
            /\ (LoopOver(me) /\ Returning(tree[me]) = 0) =>
                  tree[me][Key(log[i].at)].frequency =
                      MassAlong(tree[me], log[i].path, One)
                      + MassAlong(tree[me], log[j].path, One)

\* C2, in every step of the loop: the mass of a work item is added to what
\* its position holds, and no other position changes its frequency
C2_Step ==
    \A me \in Players :
        (pc = <<"loop", me>> /\ steps' = steps + 1) =>
            LET item == positions_to_update[Len(positions_to_update)]
                was(k) == IF k \in DOMAIN tree[me] THEN tree[me][k].frequency ELSE 0
            IN  \A k \in DOMAIN tree'[me] :
                    tree'[me][k].frequency =
                        was(k) + (IF k = Key(item.fen) THEN item.fdelta ELSE 0)

\* C2: transposition merging: masses that arrive at one position along
\* different paths add up; a later arrival never replaces an earlier one
C2_Transposition == []C2_State /\ [][C2_Step]_vars

\* a run is over in which two games transposed and both paths carried mass
C2_Witness ==
    \E me \in Players : \E i, j \in DOMAIN log :
        /\ Transpose(me, i, j)
        /\ LoopOver(me) /\ Returning(tree[me]) = 0
        /\ MassAlong(tree[me], log[i].path, One) # 0
        /\ MassAlong(tree[me], log[j].path, One) # 0

C5_NeverTerminates ==
    \A me \in Players :
        (pc = <<"loop", me>> /\ CycleReached(tree[me])) =>
            /\ positions_to_update # <<>>
            /\ \E i \in DOMAIN positions_to_update :
                  LeadsToUnitCycle(tree[me], positions_to_update[i])

\* the loop has gone round such a cycle three times
C5_Witness ==
    \E me \in Players :
        /\ pc = <<"loop", me>> /\ CycleReached(tree[me])
        /\ RootKey \in DOMAIN tree[me]
        /\ tree[me][RootKey].frequency >= 3 * One

\* the scenario: White's repertoire is the one game 1.e4 e5, Black has none,
\* and the book has answered {e7e5: 1.0} for the position after 1.e4
C6_Given ==
    /\ opt.repertoire["White"] = <<FileE4E5>>
    /\ opt.repertoire["Black"] = <<>>
    /\ ShortKey("e4", "b") \in DOMAIN opening_book.cache
    /\ opening_book.cache[ShortKey("e4", "b")].moves = <<BookMove("e7e5", One)>>

\* update_position_frequencies of `me` has returned, or its loop is over
Propagated(me) ==
    \/ LoopOver(me)
    \/ me = "White" /\ pc \in {<<"update", "Black">>, <<"loop", "Black">>}
    \/ pc \in {<<"report">>, <<"save">>}
    \/ report.printed

\* C6: in the scenario, after propagation the positions after 1.e4 and after
\* 1...e5 both hold 1.0, and recommend_for_addition over White's own
\* positions holds the position after 1...e5 with frequency 1.0, whatever
\* order the positions come in
C6_Scenario ==
    (C6_Given /\ Propagated("White")) =>
        LET map == tree["White"]
            e4 == ShortKey("e4", "b")
            e4_e5 == ShortKey("e4_e5", "w")
            listed(list) == \E i \in DOMAIN list :
                               /\ Key(list[i].fen) = e4_e5
                               /\ list[i].frequency = One
        IN  /\ e4 \in DOMAIN map /\ map[e4].frequency = One
            /\ e4_e5 \in DOMAIN map /\ map[e4_e5].frequency = One
            /\ \A own \in Orders(own_positions(map, "White")) :
                  listed(recommend_for_addition(
                            [i \in 1..Len(own) |-> map[own[i]]], 1))

\* main has come to its report in the scenario, with one position of
\* White's unprepared
C6_Witness ==
    /\ C6_Given /\ Propagated("White")
    /\ report.printed /\ report.unprepared = 1

\* C3: as long as no load replaces the map between queries, the provider is
\* asked at most once per canonical key, and a query for a key the provider
\* has answered returns the list it returned the first time
C3_OncePerKey ==
    ~probe.stale =>
        /\ \A k \in DOMAIN probe.calls : probe.calls[k] <= 1
        /\ (probe.last.asked /\ probe.last.key \in DOMAIN probe.first) =>
              probe.last.moves = probe.first[probe.last.key]

\* a query was answered from the map for a key the provider had answered
C3_Witness ==
    /\ ~probe.stale
    /\ probe.last.asked /\ ~probe.last.miss
    /\ probe.last.key \in DOMAIN probe.first

\* C7: has_changed() is false on creation and is true exactly when a query
\* went to the provider since the last successful save or load
C7_DirtyFlag == has_changed(opening_book) = probe.missed

\* after a save a miss has set the flag and a later hit has left it set
C7_Witness ==
    /\ has_changed(opening_book)
    /\ probe.saved.made
    /\ probe.last.asked /\ ~probe.last.miss

\* C8: after the bytes of a save are loaded the flag is false, the map has
\* the keys it had at the save, every query for one of them is answered
\* with the list it had then without the provider, and every other query
\* goes to the provider
C8_RoundTrip ==
    probe.loaded =>
        /\ ~has_changed(opening_book)
        /\ DOMAIN opening_book.cache = DOMAIN probe.saved.cache
        /\ \A fen \in QueryFens : \A answer \in ProviderAnswers(fen) :
              LET res == CacheMoves(opening_book, fen, answer)
                  k == Key(fen)
              IN  IF k \in DOMAIN probe.saved.cache
                  THEN ~res.miss /\ res.moves = probe.saved.cache[k].moves
                  ELSE res.miss /\ res.moves = answer

\* a new cache has loaded the bytes that a cache with entries saved
C8_Witness ==
    /\ probe.loaded
    /\ probe.saved.cache # EmptyMap
    /\ probe.calls = EmptyMap

\* the one legal move that matches the recorded move, if there is just one
Resolved(pos, mv) == CHOOSE bmv \in Candidates(pos, mv) : TRUE

\* C9, in every step of the builder: no matching legal move gives
\* IllegalMove and several give AmbiguousMove, with the position and the
\* move, and the graph is left as it is; one match puts the edge to the key
\* of the resulting position with weight 0.0 and the recorded move, leaves
\* the other edges alone, and moves the cursor to that position's node
C9_Step ==
    \A me \in Players :
        (pc = <<"import", me>> /\ cur.active /\ cur.moves # <<>> /\ cur' # cur) =>
            LET mv == Head(cur.moves)
                pos == tree[me][Key(cur.fen)]
                n == Cardinality(Candidates(pos, mv))
                dest == Key(FenNew(BoardAfter(pos.fen.fen_str, Resolved(pos, mv))))
                now == tree'[me][Key(cur.fen)].transitions
            IN  /\ n = 0 =>
                      /\ log' = Append(log, log'[Len(log')])
                      /\ log'[Len(log')].result = IllegalMove(pos.fen.fen_str, mv)
                      /\ tree' = tree
                /\ n > 1 =>
                      /\ log' = Append(log, log'[Len(log')])
                      /\ log'[Len(log')].result = AmbiguousMove(pos.fen.fen_str, mv)
                      /\ tree' = tree
                /\ n = 1 =>
                      /\ log' = log
                      /\ DOMAIN now = DOMAIN pos.transitions \cup {dest}
                      /\ now[dest].frequency = 0
                      /\ now[dest].mv = ModelMove(mv)
                      /\ \A k \in DOMAIN pos.transitions \ {dest} :
                            now[k] = pos.transitions[k]
                      /\ cur'.active /\ Key(cur'.fen) = dest
                      /\ dest \in DOMAIN tree'[me]

\* C9: how apply_move resolves a recorded move
C9_Resolution == [][C9_Step]_vars

\* games have been added of which one gave IllegalMove, one AmbiguousMove
\* and one was added to its end
C9_Witness ==
    \E i, j, k \in DOMAIN log :
        /\ log[i].result.kind = "IllegalMove"
        /\ log[j].result.kind = "AmbiguousMove"
        /\ log[k].result.kind = "Ok" /\ Len(log[k].path) > 1

RECURSIVE GamesOf(_)
GamesOf(fs) ==
    IF fs = <<>> THEN <<>>
    ELSE (IF Head(fs).ok THEN Head(fs).games ELSE <<>>) \o GamesOf(Tail(fs))

RECURSIVE AddedBy(_, _)
AddedBy(me, l) ==
    IF l = <<>> THEN <<>>
    ELSE (IF Head(l).me = me THEN <<Head(l).game>> ELSE <<>>) \o AddedBy(me, Tail(l))

\* main has left the loop over the files of `me`
Imported(me) ==
    \/ pc[1] \in {"book", "own", "update", "loop", "report", "save"}
    \/ me = "White" /\ pc = <<"import", "Black">>

\* C10, in every state: the calls of add_game_to_repertoire made so far are
\* for the games of the readable files in their order, all of them once the
\* files are done; and what a game added before it ended stays in the graph
C10_State ==
    \A me \in Players :
        LET all == GamesOf(opt.repertoire[me])
            added == AddedBy(me, log)
        IN  /\ Len(added) <= Len(all) /\ added = SubSeq(all, 1, Len(added))
            /\ Imported(me) => added = all
            /\ \A i \in DOMAIN log : log[i].me = me =>
                  \A n \in 1..Len(log[i].path) :
                     /\ Key(log[i].path[n]) \in DOMAIN tree[me]
                     /\ n > 1 => Key(log[i].path[n]) \in
                           DOMAIN tree[me][Key(log[i].path[n - 1])].transitions

\* C10, in the step in which a move is not resolved: the error is what the
\* call returns, the call is over with the moves that are left unprocessed,
\* the graph is as it was, and main is where it was with the same games and
\* files to go
C10_Step ==
    (cur.active /\ cur.moves # <<>> /\ log' # log) =>
        /\ log'[Len(log')].result.kind \in {"IllegalMove", "AmbiguousMove"}
        /\ log'[Len(log')].left = Len(cur.moves)
        /\ ~cur'.active
        /\ tree' = tree
        /\ pc' = pc /\ games' = games /\ files' = files /\ result' = result

\* C10: an error aborts only that game
C10_OnlyThatGame == []C10_State /\ [][C10_Step]_vars

\* the files are done; a game that failed after its first move was followed
\* by a game of the same file and by one of the next file, both added
C10_Witness ==
    \E me \in Players : \E i, j, k \in DOMAIN log :
        /\ Imported(me)
        /\ i < j /\ j < k
        /\ log[i].me = me /\ log[j].me = me /\ log[k].me = me
        /\ log[i].result.kind # "Ok" /\ Len(log[i].path) > 1
        /\ log[j].result.kind = "Ok"
        /\ log[k].result.kind = "Ok"
        /\ opt.repertoire[me] = <<FileBadMoves, FileE4E5>>

-----------------------------------------------------------------------------
(* Book augmentation *)

\* the move code is that of a legal move of the position
Legal(pos, uci) == \E b \in GenerateMoves(pos.fen.fen_str) : b.uci = uci

\* the canonical key of the position that the move code leads to
Destination(pos, uci) ==
    Key(FenNew(BoardAfter(pos.fen.fen_str,
                          CHOOSE b \in GenerateMoves(pos.fen.fen_str) : b.uci = uci)))

\* the calls of Cache::moves for key k made in this step
AsksInStep(k) == Count(probe'.asks, k) - Count(probe.asks, k)

\* the (position, index) pairs of the book moves returned in this step that
\* are not legal in the position they were returned for
IllegalReturned(me) ==
    {q \in UNION {{<<k, i>> : i \in DOMAIN probe'.got[k]} :
                     k \in {x \in DOMAIN tree[me] : AsksInStep(x) > 0}} :
        ~Legal(tree[me][q[1]], probe'.got[q[1]][q[2]].uci)}

\* C11, in the step of a successful add_opponents_moves_from_book: every
\* node of the graph at which the opponent is to move is asked for once, and
\* for every (move code, probability) the book returned for it the node has
\* an edge to the key of the resulting position with that probability and
\* the destination has a node; the nodes at which the owner is to move are
\* not asked for and keep their edges as they are
C11_Step ==
    \A me \in Players :
        (pc = <<"book", me>> /\ pc' # pc /\ pc' # <<"exit">>) =>
            \A k \in DOMAIN tree[me] :
                LET was == tree[me][k]
                    now == tree'[me][k]
                IN  IF Turn(was.fen.fen_str) # me
                    THEN /\ AsksInStep(k) = 1
                         /\ \A i \in DOMAIN probe'.got[k] :
                               LET bm == probe'.got[k][i]
                                   d == Destination(was, bm.uci)
                               IN  /\ Legal(was, bm.uci)
                                   /\ d \in DOMAIN now.transitions
                                   /\ now.transitions[d].frequency = bm.frequency
                                   /\ d \in DOMAIN tree'[me]
                    ELSE /\ AsksInStep(k) = 0
                         /\ now.transitions = was.transitions

\* C11: what a successful add_opponents_moves_from_book leaves in the graph
C11_Augmentation == [][C11_Step]_vars

\* White's book moves are in: the position after 1.e4 has got two of them,
\* one over an edge of the builder and one to a position that is new, and
\* the root, at which White is to move, has edges of the builder only
C11_Witness ==
    LET map == tree["White"]
        e4 == ShortKey("e4", "b")
    IN  /\ pc = <<"book", "Black">>
        /\ e4 \in DOMAIN map /\ e4 \in DOMAIN probe.got
        /\ Len(probe.got[e4]) = 2
        /\ \E d \in DOMAIN map[e4].transitions : map[e4].transitions[d].mv.tag = "ModelMove"
        /\ \E d \in DOMAIN map[e4].transitions : map[e4].transitions[d].mv.tag = "UCI"
        /\ map[RootKey].transitions # EmptyMap
        /\ \A d \in DOMAIN map[RootKey].transitions :
              map[RootKey].transitions[d].frequency = 0

\* C12, in the step of add_opponents_moves_from_book: if a move code that
\* the book returned for a position is not legal there, the call fails
\* with IllegalMove of that position's description and that move code, main
\* ends with this error, and nothing is printed or saved
C12_Step ==
    \A me \in Players :
        (pc = <<"book", me>> /\ pc' # pc /\ IllegalReturned(me) # {}) =>
            /\ pc' = <<"exit">>
            /\ \E q \in IllegalReturned(me) :
                  result' = IllegalMove(tree[me][q[1]].fen.fen_str,
                                        probe'.got[q[1]][q[2]].uci)
            /\ report' = report /\ disk' = disk

\* C12, in every state: main has ended with IllegalMove only from the book
\* phase, before the normalizer, the propagation and the report
C12_State ==
    result.kind = "IllegalMove" =>
        /\ pc = <<"exit">>
        /\ ~report.printed
        /\ positions_to_update = <<>>
        /\ \A me \in Players : average_book_length[me] = 0

\* C12: an illegal book move is a hard error
C12_IllegalBookMove == []C12_State /\ [][C12_Step]_vars

\* main has ended with the IllegalMove of the book's e1g1 in the position
\* after 1.e4 e5, in which White cannot castle
C12_Witness ==
    /\ pc = <<"exit">>
    /\ result.kind = "IllegalMove"
    /\ result.mv = "e1g1"
    /\ result.fen_str[1] = "e4_e5"

-----------------------------------------------------------------------------
(* Edges *)

RecordedMoves ==
    {mv_e4, mv_d4, mv_e5, mv_Nf3, mv_Nf6, mv_Ng1, mv_Ng8, mv_Ne2, mv_Ngf3, CastleKingside}

\* every edge is stored under the canonical key of its destination, so a
\* node has one edge per destination at most
EdgesKeyed(map) ==
    \A k \in DOMAIN map : \A d \in DOMAIN map[k].transitions :
        Key(map[k].transitions[d].fen) = d

\* apply_move on a node of the graph, whatever edges and weights it has:
\* the edge to the destination holds the recorded move and weight 0.0 and
\* the other edges are as they were
MoveOverwrites(pos) ==
    \A mv \in RecordedMoves :
        LET r == apply_move(pos, mv)
            d == Key(r.fen)
        IN  r.ok =>
              /\ DOMAIN r.pos.transitions = DOMAIN pos.transitions \cup {d}
              /\ r.pos.transitions[d].mv = ModelMove(mv)
              /\ r.pos.transitions[d].frequency = 0
              /\ \A x \in DOMAIN pos.transitions \ {d} :
                    r.pos.transitions[x] = pos.transitions[x]

\* in every state, and for apply_move on the graphs that the builder and
\* the augmentation leave
C13_State ==
    \A me \in Players :
        /\ EdgesKeyed(tree[me])
        /\ pc[1] \in {"book", "own"} =>
              \A k \in DOMAIN tree[me] : MoveOverwrites(tree[me][k])

\* the step of the builder that adds a move: the edge to the position the
\* cursor moves to holds this move and weight 0.0
C13_Builder ==
    \A me \in Players :
        (pc = <<"import", me>> /\ cur.active /\ cur.moves # <<>> /\ cur'.active
         /\ cur' # cur) =>
            LET edge == tree'[me][Key(cur.fen)].transitions[Key(cur'.fen)]
            IN  edge.mv = ModelMove(Head(cur.moves)) /\ edge.frequency = 0

\* the step of the augmentation: the edge of every legal move the book
\* returned holds the returned probability, and its move is `descriptor`
C13_Book(me, k, i, descriptor) ==
    LET bm == probe'.got[k][i]
        d == Destination(tree[me][k], bm.uci)
        edge == tree'[me][k].transitions[d]
    IN  Legal(tree[me][k], bm.uci) =>
          /\ edge.frequency = bm.frequency
          /\ edge.mv = descriptor

\* C13 as stated, in the step of the augmentation: an edge that is there
\* gets the book's probability and the book's move code as its move
C13_AsStated ==
    \A me \in Players :
        (pc = <<"book", me>> /\ pc' # pc) =>
            \A k \in {x \in DOMAIN tree[me] : AsksInStep(x) > 0} :
            \A i \in DOMAIN probe'.got[k] :
                C13_Book(me, k, i, UCI(probe'.got[k][i].uci))

\* C13 as stated: one edge per destination, and both apply_move and
\* apply_uci overwrite the move and the weight of an edge that is there
C13_Original == []C13_State /\ [][C13_Builder /\ C13_AsStated]_vars

\* C13 amended, in the step of the augmentation: an edge that is there gets
\* the book's probability and keeps its move; an edge that is new holds the
\* book's move code
C13_AsCoded ==
    \A me \in Players :
        (pc = <<"book", me>> /\ pc' # pc) =>
            \A k \in {x \in DOMAIN tree[me] : AsksInStep(x) > 0} :
            \A i \in DOMAIN probe'.got[k] :
                LET uci == probe'.got[k][i].uci
                    was == tree[me][k].transitions
                    d == Destination(tree[me][k], uci)
                IN  C13_Book(me, k, i,
                             IF Legal(tree[me][k], uci) /\ d \in DOMAIN was
                             THEN was[d].mv ELSE UCI(uci))

\* C13 amended: one edge per destination; apply_move overwrites the move
\* and the weight (with 0.0) of an edge that is there; apply_uci overwrites
\* its weight only, so that the builder's 0.0 becomes the book's probability
\* and the builder's move stays
C13_Edges == []C13_State /\ [][C13_Builder /\ C13_AsCoded]_vars

\* White's book moves are in: the edge of the root that the builder wrote
\* twice holds the move as it was written last, and the builder's edge for
\* 1...Nf6 holds the book's 1.0 and the builder's move
C13_Witness ==
    LET map == tree["White"]
        Nf3 == ShortKey("Nf3", "b")
        Nf3_Nf6 == ShortKey("Nf3_Nf6", "w")
    IN  /\ pc = <<"book", "Black">>
        /\ opt.repertoire["White"] = <<FileRewrite>>
        /\ map[RootKey].transitions[Nf3].mv = ModelMove(mv_Ngf3)
        /\ map[Nf3].transitions[Nf3_Nf6].mv = ModelMove(mv_Nf6)
        /\ map[Nf3].transitions[Nf3_Nf6].frequency = One

-----------------------------------------------------------------------------
(* Own-move normalizer *)

\* w is the f64 nearest to 1/n: exactly 1/n where that is an f64
NearestToOneOver(n, w) ==
    /\ 2 * n * w <= 2 * One + n
    /\ 2 * n * w >= 2 * One - n
    /\ One % n = 0 => n * w = One

\* `now` is `was` with the weights of the owner's positions that have
\* edges set to 1/n, and with nothing else changed
Normalized(was, now, me) ==
    /\ DOMAIN now = DOMAIN was
    /\ \A k \in DOMAIN was :
          LET n == Cardinality(DOMAIN was[k].transitions)
          IN  IF Turn(was[k].fen.fen_str) = me /\ n >= 1
              THEN /\ DOMAIN now[k].transitions = DOMAIN was[k].transitions
                   /\ \A d \in DOMAIN was[k].transitions :
                         /\ NearestToOneOver(n, now[k].transitions[d].frequency)
                         /\ now[k].transitions[d].mv = was[k].transitions[d].mv
                         /\ now[k].transitions[d].fen = was[k].transitions[d].fen
                   /\ now[k].frequency = was[k].frequency
                   /\ now[k].fen = was[k].fen
              ELSE now[k] = was[k]

\* C14, in the step of set_own_move_frequencies: the owner's positions with
\* n >= 1 edges have all their weights at 1/n, and the opponent's positions
\* and the other optimizer are as they were
C14_Step ==
    \A me \in Players :
        (pc = <<"own", me>> /\ pc' # pc) =>
            /\ Normalized(tree[me], tree'[me], me)
            /\ \A other \in Players \ {me} : tree'[other] = tree[other]

\* C14, in every state before and after a normalizer has run: the same of
\* set_own_move_frequencies for either side on the graph as it is, whatever
\* weights its edges have
C14_State ==
    pc[1] \in {"own", "update"} =>
        \A me \in Players : \A owner \in Players :
            Normalized(tree[me], set_own_move_frequencies(tree[me], owner), owner)

\* C14: set_own_move_frequencies spreads 1.0 evenly over the owner's moves
C14_Normalizer == []C14_State /\ [][C14_Step]_vars

\* White's normalizer has run: the root has three prepared moves of one
\* weight, and the positions after them hold the book's weights
C14_Witness ==
    LET map == tree["White"]
        e4 == ShortKey("e4", "b")
    IN  /\ pc = <<"own", "Black">>
        /\ opt.repertoire["White"] = <<FileThree>>
        /\ Cardinality(DOMAIN map[RootKey].transitions) = 3
        /\ \A d \in DOMAIN map[RootKey].transitions :
              /\ map[RootKey].transitions[d].frequency > 0
              /\ NearestToOneOver(3, map[RootKey].transitions[d].frequency)
        /\ \E d \in DOMAIN map[e4].transitions :
              map[e4].transitions[d].frequency = Half

-----------------------------------------------------------------------------
(* Average book length *)

\* a node at which the owner is to move and has nothing prepared
OwnLeaf(map, me, k) ==
    /\ k \in DOMAIN map
    /\ Turn(map[k].fen.fen_str) = me
    /\ DOMAIN map[k].transitions = {}

\* floor(ply / 2) times the mass, summed over the paths of a level (the
\* paths of `ply` edges and non-zero product) that end in such a node
RECURSIVE LevelLength(_, _, _, _)
LevelLength(map, me, level, ply) ==
    IF level = <<>> THEN 0
    ELSE (IF OwnLeaf(map, me, Head(level).key)
          THEN (ply \div 2) * Head(level).mass ELSE 0)
         + LevelLength(map, me, Tail(level), ply)

\* the same, summed over this level and the levels of the longer paths
RECURSIVE PathLength(_, _, _, _)
PathLength(map, me, level, ply) ==
    IF level = <<>> THEN 0
    ELSE LevelLength(map, me, level, ply)
         + PathLength(map, me, NextLevel(map, level), ply + 1)

\* C15, in every state: the accumulator is 0.0 when propagation starts;
\* the ply of a work item is the number of edges of its path; and after a
\* run that terminates the accumulator is the sum of floor(ply/2) times the
\* mass over the arrivals of non-zero mass at nodes where the owner is to
\* move and has no edges, which is 0 if the root is such a node
C15_State ==
    \A me \in Players :
        /\ pc = <<"update", me>> => average_book_length[me] = 0
        /\ pc = <<"loop", me>> =>
              \A i \in DOMAIN positions_to_update :
                  positions_to_update[i].ply = Len(positions_to_update[i].sequence)
        /\ LoopOver(me) =>
              /\ average_book_length[me] = PathLength(tree[me], me, Level0, 0)
              /\ OwnLeaf(tree[me], me, RootKey) => average_book_length[me] = 0

\* C15, in every step of the loop: the accumulator grows by floor(ply/2)
\* times the mass if the item has non-zero mass and its node is one where
\* the owner is to move and has no edges, and is left alone otherwise
C15_Step ==
    \A me \in Players :
        (pc = <<"loop", me>> /\ steps' = steps + 1) =>
            LET item == positions_to_update[Len(positions_to_update)]
                k == Key(item.fen)
                counts == /\ item.fdelta # 0
                          /\ Turn(item.fen.fen_str) = me
                          /\ k \in DOMAIN tree[me] => DOMAIN tree[me][k].transitions = {}
            IN  /\ average_book_length'[me] = average_book_length[me]
                       + (IF counts THEN (item.ply \div 2) * item.fdelta ELSE 0)
                /\ \A other \in Players \ {me} :
                       average_book_length'[other] = average_book_length[other]

\* C15: what average_book_length holds
C15_BookLength == []C15_State /\ [][C15_Step]_vars

\* a run has ended in which a part of the mass arrived at an unprepared
\* position of the owner three plies from the root
C15_Witness ==
    \E me \in Players :
        /\ LoopOver(me)
        /\ \E k \in DOMAIN tree[me] :
              /\ OwnLeaf(tree[me], me, k)
              /\ tree[me][k].frequency > 0
              /\ Len(tree[me][k].likeliest_sequence.moves) = 3
        /\ average_book_length[me] > 0
        /\ average_book_length[me] < One

-----------------------------------------------------------------------------
(* Recommendations *)

Edges(p) == Cardinality(DOMAIN p.transitions)

Least(a, b) == IF a < b THEN a ELSE b

\* `out` is a selection of `given`: `wanted` of its positions that fit, or
\* all of them if they are fewer, each once, in the order `before`, and no
\* position that fits and is left out comes strictly before one that is in
Selection(given, out, wanted, fits(_), before(_, _)) ==
    LET m == Cardinality({j \in DOMAIN given : fits(given[j])})
        listed == {out[i] : i \in DOMAIN out}
    IN  /\ Len(out) = Least(wanted, m)
        /\ Len(out) <= wanted
        /\ \A i \in DOMAIN out :
              fits(out[i]) /\ \E j \in DOMAIN given : given[j] = out[i]
        /\ \A i, j \in DOMAIN out : i # j => out[i] # out[j]
        /\ \A i \in DOMAIN out : i < Len(out) => before(out[i], out[i + 1])
        /\ \A j \in DOMAIN given :
              (fits(given[j]) /\ given[j] \notin listed) =>
                  \A i \in DOMAIN out : before(out[i], given[j])

\* C16: recommend_for_addition returns min(K, m) positions without
\* transitions, by frequency from high to low, and leaves out none of a
\* higher frequency than one it returns; recommend_for_removal returns
\* min(K, m) positions with transitions, by frequency from low to high, and
\* leaves out none of a lower frequency than one it returns
C16_AdditionRemoval ==
    /\ (report.printed /\ report.by = "addition") =>
          LET fits(p) == Edges(p) = 0
              before(a, b) == a.frequency >= b.frequency
          IN  Selection(report.positions, report.list, report.count, fits, before)
    /\ (report.printed /\ report.by = "removal") =>
          LET fits(p) == Edges(p) > 0
              before(a, b) == a.frequency <= b.frequency
          IN  Selection(report.positions, report.list, report.count, fits, before)

\* one of two unprepared positions was asked for, and the one that came
\* second in the list, of the higher frequency, is returned
C16_Witness ==
    /\ report.printed /\ report.by = "addition" /\ report.count = 1
    /\ Len(report.positions) = 2 /\ Len(report.list) = 1
    /\ Edges(report.positions[1]) = 0 /\ Edges(report.positions[2]) = 0
    /\ report.positions[1].frequency < report.positions[2].frequency
    /\ report.list[1] = report.positions[2]

NarrowingKey(p) == FDiv(p.frequency, AsF64(Edges(p)))

ReductionKey(p) == FMul(p.frequency, AsF64(Edges(p)))

\* C17: recommend_for_narrowing returns the min(K, m) positions with more
\* than one transition of the lowest frequency / transition count, from low
\* to high; recommend_for_reduction those of the highest frequency x
\* transition count, from high to low; positions with no or one transition
\* are in neither list
C17_NarrowingReduction ==
    /\ (report.printed /\ report.by = "narrowing") =>
          LET fits(p) == Edges(p) > 1
              before(a, b) == NarrowingKey(a) <= NarrowingKey(b)
          IN  Selection(report.positions, report.list, report.count, fits, before)
    /\ (report.printed /\ report.by = "reduction") =>
          LET fits(p) == Edges(p) > 1
              before(a, b) == ReductionKey(a) >= ReductionKey(b)
          IN  Selection(report.positions, report.list, report.count, fits, before)

\* two positions with several moves were listed for reduction: the one that
\* came second, of the higher frequency x transition count, is listed first
C17_Witness ==
    /\ report.printed /\ report.by = "reduction" /\ report.count = 2
    /\ Len(report.positions) = 2 /\ Len(report.list) = 2
    /\ ReductionKey(report.positions[1]) < ReductionKey(report.positions[2])
    /\ report.list[1] = report.positions[2]

\* x is the decimal fraction n/d up to the rounding of f64: within two of
\* the least positive f64
Near(x, n, d) ==
    /\ d * x - n * One <= 2 * d
    /\ n * One - d * x <= 2 * d

\* a position with three prepared moves of weight 1/3 each and frequency 0.6
ThreeAtSixTenths(p) ==
    /\ Edges(p) = 3
    /\ \A d \in DOMAIN p.transitions :
          p.transitions[d].frequency = FDiv(One, AsF64(3))
    /\ p.frequency = Decimal(6, 10)

\* C18 as stated: for such a position the key of recommend_for_narrowing is
\* 0.2 and the key of recommend_for_reduction is 0.6
C18_Original ==
    report.printed =>
        \A i \in DOMAIN report.list :
            ThreeAtSixTenths(report.list[i]) =>
                /\ report.by = "narrowing" => Near(report.keys[i], 2, 10)
                /\ report.by = "reduction" => Near(report.keys[i], 6, 10)

\* C18 amended: for such a position the key of recommend_for_narrowing is
\* 0.6 / 3 = 0.2 and the key of recommend_for_reduction is 0.6 x 3 = 1.8
C18_SortKeys ==
    report.printed =>
        \A i \in DOMAIN report.list :
            ThreeAtSixTenths(report.list[i]) =>
                /\ report.by = "narrowing" =>
                      /\ Near(report.keys[i], 2, 10)
                      /\ report.keys[i] = FDiv(Decimal(6, 10), AsF64(3))
                /\ report.by = "reduction" =>
                      /\ Near(report.keys[i], 18, 10)
                      /\ report.keys[i] = FMul(Decimal(6, 10), AsF64(3))

\* such a position is listed for reduction
C18_Witness ==
    /\ report.printed /\ report.by = "reduction"
    /\ \E i \in DOMAIN report.list : ThreeAtSixTenths(report.list[i])

\* the positions of an optimizer in an order of its HashMap
OwnList(me, order) == [i \in 1..Len(order) |-> tree[me][order[i]]]

\* C19 as stated: when the positions are final, each of the four functions
\* returns the same list for the same K in whatever order own_positions
\* yields the positions of each optimizer
C19_Idempotent ==
    pc = <<"report">> =>
        \A w1, w2 \in Orders(own_positions(tree["White"], "White")) :
        \A b1, b2 \in Orders(own_positions(tree["Black"], "Black")) :
        \A by \in {"addition", "removal", "narrowing", "reduction"} :
        \A count \in 0..(MaxList + 1) :
            recommend(by, OwnList("White", w1) \o OwnList("Black", b1), count)
                = recommend(by, OwnList("White", w2) \o OwnList("Black", b2), count)

-----------------------------------------------------------------------------
(* Nodes *)

\* `now` is `was` with the node for the Fen got or created: a node that is
\* there is as it was, a new one holds the Fen, frequency 0.0, no edges and
\* the path given, and the other nodes are as they were
GotOrCreated(was, now, fen, sequence) ==
    IF Key(fen) \in DOMAIN was THEN now = was
    ELSE /\ DOMAIN now = DOMAIN was \cup {Key(fen)}
         /\ \A k \in DOMAIN was : now[k] = was[k]
         /\ now[Key(fen)].fen = fen
         /\ now[Key(fen)].frequency = 0
         /\ DOMAIN now[Key(fen)].transitions = {}
         /\ now[Key(fen)].likeliest_sequence.moves = sequence

\* descriptions asked for: the starting position with other counters, the
\* position after 1.e4, and a position that no game reaches
NodeFens ==
    {FenNew(<<"init", "w", "KQkq", "-", 3, 7>>),
     FenNew(<<"e4", "b", "KQkq", "-", 0, 1>>),
     FenNew(<<"init", "w", "-", "-", 0, 1>>)}

\* C20, in every state: every node is stored under the canonical key of
\* its own description, so that there is one node per key; and, between
\* the steps of the builder and of the other phases and when a propagation
\* run is over, position and position_w_sequence return the node that is
\* there as it is, or create an empty one for a key that has none
C20_State ==
    \A me \in Players :
        /\ \A k \in DOMAIN tree[me] : Key(tree[me][k].fen) = k
        /\ positions_to_update = <<>> =>
              \A fen \in NodeFens :
                  /\ GotOrCreated(tree[me], position(tree[me], fen), fen, <<>>)
                  /\ GotOrCreated(tree[me],
                                  position_w_sequence(tree[me], fen,
                                                      <<ModelMove(mv_e4)>>),
                                  fen, <<ModelMove(mv_e4)>>)

\* C20, in every step: no node is removed, and a node that is new has no
\* edges and frequency 0.0, or the mass of the work item that created it
C20_Step ==
    \A me \in Players :
        /\ DOMAIN tree[me] \subseteq DOMAIN tree'[me]
        /\ \A k \in DOMAIN tree'[me] \ DOMAIN tree[me] :
              /\ Key(tree'[me][k].fen) = k
              /\ DOMAIN tree'[me][k].transitions = {}
              /\ IF pc = <<"loop", me>>
                 THEN LET item == positions_to_update[Len(positions_to_update)]
                      IN  k = Key(item.fen) /\ tree'[me][k].frequency = item.fdelta
                 ELSE tree'[me][k].frequency = 0

\* C20: one node per canonical key, got or created, never removed
C20_Nodes == []C20_State /\ [][C20_Step]_vars

\* a game came back to the starting position, with other counters in its
\* description: the node of the root is the one of the starting board, and
\* propagation has ended with mass and edges on it
C20_Witness ==
    \E me \in Players : \E i \in DOMAIN log :
        /\ log[i].me = me /\ Len(log[i].path) = 5
        /\ Key(log[i].path[5]) = RootKey
        /\ log[i].path[5] # StartingBoard
        /\ LoopOver(me)
        /\ tree[me][RootKey].fen = StartingBoard
        /\ tree[me][RootKey].frequency > 0
        /\ DOMAIN tree[me][RootKey].transitions # {}


-----------------------------------------------------------------------------
(* Canonical keys *)

\* the space-separated fields of a string
RECURSIVE Fields(_)
Fields(str) ==
    LET at == {i \in 1..Len(str) : str[i] = " "}
    IN  IF at = {} THEN <<str>>
        ELSE LET i == CHOOSE x \in at : \A y \in at : x <= y
             IN  <<SubSeq(str, 1, i - 1)>> \o Fields(SubSeq(str, i + 1, Len(str)))

\* two descriptions of the same number of fields, three at least
Full(a, b) == Len(Fields(a)) = Len(Fields(b)) /\ Len(Fields(a)) >= 3

\* the fields before the last two
Earlier(str) == SubSeq(Fields(str), 1, Len(Fields(str)) - 2)

\* impl PartialEq for Fen
FenEq(a, b) == a.shortened_fen_str = b.shortened_fen_str

\* a Cache that holds the moves of `fen` finds them when asked for `other`
Found(fen, other) ==
    LET book == CacheMoves(CacheNew, fen, <<BookMove("e2e4", One)>>).book
    IN  ~CacheMoves(book, other, <<>>).miss

\* C21: the Fen made of a description and the Fen made of any other
\* description with as many fields are equal, have one key and are found in
\* the cache under each other's key if the two differ in their last two
\* fields only, and are unequal, with different keys, not found for each
\* other, if they differ in an earlier field
C21_CanonicalKeys ==
    (pc = <<"fen made">> /\ report.made.ok) =>
        \A other \in FenStrings :
            Full(cur.fen_str, other) =>
                LET a == report.made.fen
                    b == Fen_new(other).fen
                    same == Earlier(cur.fen_str) = Earlier(other)
                IN  /\ Fen_new(other).ok
                    /\ FenEq(a, b) = same
                    /\ (Key(a) = Key(b)) = same
                    /\ Found(a, b) = same

\* a Fen has been made of "a D a", which differs from "a a D" in the last
\* two fields and from "D D a" in the first
C21_Witness ==
    /\ pc = <<"fen made">> /\ report.made.ok
    /\ cur.fen_str = <<"a", " ", "D", " ", "a">>
    /\ Key(report.made.fen) = Key(Fen_new(<<"a", " ", "a", " ", "D">>).fen)
    /\ Key(report.made.fen) # Key(Fen_new(<<"D", " ", "D", " ", "a">>).fen)

\* C22 as stated: Fen::new yields a key for every string and never fails
C22_Total ==
    pc = <<"fen made">> => report.made.ok /\ result.kind = "None"


-----------------------------------------------------------------------------
(* The provider's failures and retries *)

\* the last response had a status that is neither OK nor the rate limit
OtherStatus ==
    /\ probe.outcome.sent
    /\ probe.outcome.status \notin {"OK", "TOO_MANY_REQUESTS"}

\* C23 as stated: when the provider has answered a query of the
\* augmentation with a status that is neither OK nor the rate limit, the
\* query ends with the typed error Http as the result returned to the caller
C23_TypedHttpError ==
    (OtherStatus /\ pc \notin {<<"get_url">>, <<"sleep">>, <<"unwrap">>}) =>
        result = [kind |-> "Http"]

\* the query is inside get_url
InGetUrl == pc \in {<<"get_url">>, <<"sleep">>}

\* C24, in every step: a request carries the url the query was made with,
\* the same as the request before it; after TOO_MANY_REQUESTS get_url neither
\* returns nor fails but sleeps, for the fixed delay, and sends again; after
\* OK with a Book it returns that Book at once, after any other status the
\* error Http at once; and it returns after a response only if that
\* response was not TOO_MANY_REQUESTS
C24_Step ==
    /\ (pc = <<"get_url">> /\ pc' # pc) =>
          /\ probe'.url = Url(cur.fen.fen_str)
          /\ probe.requests > 0 => probe'.url = probe.url
          /\ probe'.requests = Counted(probe.requests)
          /\ probe'.outcome.sent =>
                LET status == probe'.outcome.status
                    body == probe'.outcome.body
                IN  /\ status = "TOO_MANY_REQUESTS" =>
                          pc' = <<"sleep">> /\ cur' = cur /\ result' = result
                    /\ (status = "OK" /\ body.json) =>
                          /\ pc' = <<"unwrap">>
                          /\ cur'.got = [ok |-> TRUE, book |-> body.book]
                    /\ status \notin {"OK", "TOO_MANY_REQUESTS"} =>
                          /\ pc' = <<"unwrap">>
                          /\ cur'.got = [ok |-> FALSE, err |-> [kind |-> "Http"]]
                    /\ pc' = <<"unwrap">> => status # "TOO_MANY_REQUESTS"
    /\ (pc = <<"sleep">> /\ pc' # pc) =>
          /\ pc' = <<"get_url">> /\ cur' = cur
          /\ probe.slept < MaxRequests * RetryDelay =>
                probe'.slept = probe.slept + RetryDelay

\* C24: get_url sends the same request again after a fixed delay on every
\* TOO_MANY_REQUESTS, without a bound; it returns the Book as soon as a
\* response is OK and the error Http as soon as it has another status; if
\* the provider ceases to limit the rate for good the query leaves get_url,
\* and as long as the provider limits it the query stays inside
C24_Retries ==
    /\ [][C24_Step]_vars
    /\ (<>[]~probe.limiting) => <>(~InGetUrl)
    /\ ([]probe.limiting) => []InGetUrl

\* get_url has returned a Book after more requests than are counted, having
\* slept before each but the first
C24_Witness ==
    /\ pc = <<"unwrap">> /\ cur.got.ok
    /\ probe.requests = MaxRequests
    /\ probe.slept = MaxRequests * RetryDelay


-----------------------------------------------------------------------------
(* Propagation: paths, termination, order, zero mass, closure, range *)

\* the positions that the moves of a sequence lead to from the root, along
\* edges that carry these moves
RECURSIVE Spelled(_, _, _)
Spelled(map, sequence, from) ==
    IF sequence = <<>> THEN from
    ELSE Spelled(map, Tail(sequence),
                 {k \in UNION {DOMAIN map[x].transitions : x \in from \cap DOMAIN map} :
                     \E x \in from \cap DOMAIN map :
                         /\ k \in DOMAIN map[x].transitions
                         /\ map[x].transitions[k].mv = Head(sequence)})

\* the sequence spells a path of the graph from the root to position k
Spells(map, sequence, k) == k \in Spelled(map, sequence, {RootKey})

\* C25, in every state of the loop: every item of the work-list carries a
\* path as long as its ply that spells a path of the graph from the root to
\* the item's position; and when the loop is over every position that has
\* received mass holds such a path
C25_State ==
    \A me \in Players :
        pc = <<"loop", me>> =>
            /\ \A i \in DOMAIN positions_to_update :
                  LET item == positions_to_update[i]
                  IN  /\ Len(item.sequence) = item.ply
                      /\ Spells(tree[me], item.sequence, Key(item.fen))
            /\ positions_to_update = <<>> =>
                  \A k \in DOMAIN tree[me] :
                      tree[me][k].frequency # 0 =>
                          Spells(tree[me], tree[me][k].likeliest_sequence.moves, k)

\* C25, in every step of the loop: an item of non-zero mass replaces the
\* path of its position with its own, whatever the position held and
\* whatever mass came before, and no other position's path changes; an item
\* of mass 0.0 changes no path
C25_Step ==
    \A me \in Players :
        (pc = <<"loop", me>> /\ steps' = steps + 1) =>
            LET item == positions_to_update[Len(positions_to_update)]
                was(k) == IF k \in DOMAIN tree[me]
                          THEN tree[me][k].likeliest_sequence.moves ELSE <<>>
            IN  \A k \in DOMAIN tree'[me] :
                    LET now == tree'[me][k].likeliest_sequence.moves
                    IN  IF item.fdelta # 0 /\ k = Key(item.fen)
                        THEN now = item.sequence /\ Len(now) = item.ply
                        ELSE now = was(k)

\* C25: after propagation the path of every position that received an item
\* of non-zero mass is the path of the last such item popped for it; the
\* path is as long as the item's ply and spells a path from the root
C25_LastPath == []C25_State /\ [][C25_Step]_vars

\* a run is over in which the position after 1.e4 Nf6 2.Nf3 received 0.5
\* along 1.Nf3 Nf6 2.e4 and then 0.25 along 1.e4 Nf6 2.Nf3, and holds the
\* path of the lesser mass
C25_Witness ==
    LET k == ShortKey("e4_Nf3_Nf6", "b")
    IN  /\ LoopOver("White")
        /\ k \in DOMAIN tree["White"]
        /\ tree["White"][k].frequency = Half + Half \div 2
        /\ tree["White"][k].likeliest_sequence.moves =
              <<ModelMove(mv_e4), ModelMove(mv_Nf6), ModelMove(mv_Nf3)>>


\* the positions reached from the positions of S by one edge at least,
\* along edges whose weight is `least` or more
RECURSIVE EdgeReach(_, _, _, _)
EdgeReach(map, S, seen, least) ==
    LET next == {k \in UNION {DOMAIN map[x].transitions : x \in S \cap DOMAIN map} :
                    \E x \in S \cap DOMAIN map :
                        /\ k \in DOMAIN map[x].transitions
                        /\ Weight(map, x, k) >= least}
    IN  IF next \subseteq seen THEN seen
        ELSE EdgeReach(map, next, seen \cup next, least)

\* the graph has a cycle
HasCycle(map) == \E k \in DOMAIN map : k \in EdgeReach(map, {k}, {}, 0)

\* every cycle of the graph has an edge of weight 0.0: no cycle is made of
\* edges of non-zero weight alone
ZeroOnEveryCycle(map) ==
    \A k \in DOMAIN map : k \notin EdgeReach(map, {k}, {}, 1)

\* C26, in every step of the loop: an item of non-zero mass pushes an item
\* for every edge of its position, whatever its ply and whether or not the
\* position was seen before, and an item of mass 0.0 pushes none
C26_Step ==
    \A me \in Players :
        (pc = <<"loop", me>> /\ steps' = steps + 1) =>
            LET n == Len(positions_to_update)
                item == positions_to_update[n]
                edges == IF Key(item.fen) \in DOMAIN tree[me]
                         THEN transition_count(tree[me][Key(item.fen)]) ELSE 0
            IN  /\ SubSeq(positions_to_update', 1, n - 1)
                      = SubSeq(positions_to_update, 1, n - 1)
                /\ Len(positions_to_update') =
                      n - 1 + (IF item.fdelta = 0 THEN 0 ELSE edges)

\* C26: on a graph in which every cycle has an edge of weight 0.0 the loop
\* of update_position_frequencies ends with an empty work-list; nothing but
\* the test for a mass of exactly 0.0 keeps an item from being expanded
C26_ZeroStops ==
    /\ \A me \in Players :
          (pc = <<"loop", me>> /\ ZeroOnEveryCycle(tree[me])) ~> LoopOver(me)
    /\ [][C26_Step]_vars

\* a run is over on a graph with a cycle, every cycle of which has an edge
\* of weight 0.0, after its mass has come to such an edge
C26_Witness ==
    \E me \in Players :
        /\ LoopOver(me)
        /\ HasCycle(tree[me]) /\ ZeroOnEveryCycle(tree[me])
        /\ \E k \in DOMAIN tree[me] : \E d \in DOMAIN tree[me][k].transitions :
              /\ tree[me][k].frequency # 0
              /\ Weight(tree[me], k, d) = 0
              /\ k \in EdgeReach(tree[me], {d}, {}, 0)


\* C27 as stated: when the loop is over, the frequency of every position
\* and the average book length are what they would be, had the items been
\* pushed in any other order
C27_OrderIndependent ==
    (pc = <<"sum">> /\ positions_to_update = <<>>) =>
        \A order \in Orders(DOMAIN cur.pushed) :
            LET other == update_leaves([map |-> EmptyMap, average_book_length |-> 0],
                                       [i \in DOMAIN cur.pushed |-> cur.pushed[order[i]]])
            IN  /\ other.average_book_length = average_book_length["White"]
                /\ \A k \in DOMAIN tree["White"] :
                      other.map[k].frequency = tree["White"][k].frequency


\* position k is not the root, and every path from the root to it has an
\* edge of weight 0.0
ZeroOnly(map, k) ==
    k # RootKey /\ k \notin EdgeReach(map, {RootKey}, {}, 1)

\* the path that the builder gave the position: the moves of a game up to
\* the point at which the game came to it; the empty path if no game did
BuilderPath(me, k, moves) ==
    LET came == {c \in UNION {{<<i, n>> : n \in 0..(Len(log[i].path) - 1)} :
                                 i \in DOMAIN log} :
                    /\ log[c[1]].me = me
                    /\ Key(log[c[1]].path[c[2] + 1]) = k}
    IN  IF came = {} THEN moves = <<>>
        ELSE \E c \in came :
                moves = [j \in 1..c[2] |-> ModelMove(log[c[1]].game[j])]

\* C28, in every step of the loop: an item of mass 0.0 is removed and
\* nothing else changes: no frequency, no path, no position is created,
\* nothing is added to the book length, nothing is pushed; and a position
\* that is reached through edges of weight 0.0 only is never changed
C28_Step ==
    \A me \in Players :
        (pc = <<"loop", me>> /\ steps' = steps + 1) =>
            LET n == Len(positions_to_update)
                item == positions_to_update[n]
            IN  /\ item.fdelta = 0 =>
                      /\ tree' = tree
                      /\ average_book_length' = average_book_length
                      /\ positions_to_update' = SubSeq(positions_to_update, 1, n - 1)
                /\ \A k \in DOMAIN tree[me] :
                      ZeroOnly(tree[me], k) => tree'[me][k] = tree[me][k]

\* C28, when the loop is over: a position that is reached through edges of
\* weight 0.0 only has the frequency 0.0 and the path the builder gave it
C28_State ==
    \A me \in Players :
        LoopOver(me) =>
            \A k \in DOMAIN tree[me] :
                ZeroOnly(tree[me], k) =>
                    /\ tree[me][k].frequency = 0
                    /\ BuilderPath(me, k, tree[me][k].likeliest_sequence.moves)

\* C28: an item of mass exactly 0.0 is discarded without effect, so a
\* position that every path from the root reaches through an edge of weight
\* 0.0 ends with frequency 0.0 and the builder's path
C28_ZeroDiscarded == []C28_State /\ [][C28_Step]_vars

\* a run is over in which White prepared 1.e4 Nf6 2.Nf3, the book returned
\* only 1...e5 after 1.e4, and the position after 1...Nf6 holds 0.0 and the
\* path 1.e4 Nf6 of the builder
C28_Witness ==
    LET map == tree["White"]
        e4 == ShortKey("e4", "b")
        e4_Nf6 == ShortKey("e4_Nf6", "w")
    IN  /\ LoopOver("White")
        /\ e4 \in DOMAIN map /\ e4_Nf6 \in DOMAIN map
        /\ map[e4].frequency # 0
        /\ e4_Nf6 \in DOMAIN map[e4].transitions
        /\ Weight(map, e4, e4_Nf6) = 0
        /\ ZeroOnly(map, e4_Nf6)
        /\ map[e4_Nf6].frequency = 0
        /\ map[e4_Nf6].likeliest_sequence.moves =
              <<ModelMove(mv_e4), ModelMove(mv_Nf6)>>


\* the destination of every edge is the key of a position of the graph
Closed(map) == \A k \in DOMAIN map : DOMAIN map[k].transitions \subseteq DOMAIN map

\* add_opponents_moves_from_book of `me` has returned Ok
Augmented(me) ==
    \/ me = "White" /\ pc = <<"book", "Black">>
    \/ pc[1] \in {"own", "update", "loop", "report", "save"}
    \/ pc = <<"exit">> /\ report.printed

\* C29, in every state after the augmentation of an optimizer has
\* succeeded, whatever games were added before and whether or not they
\* failed: every edge of its graph leads to a position of the graph
C29_State == \A me \in Players : Augmented(me) => Closed(tree[me])

\* C29, in every step of the loop: no position is created but the root
C29_Step ==
    \A me \in Players :
        (pc = <<"loop", me>> /\ steps' = steps + 1) =>
            (DOMAIN tree'[me]) \ (DOMAIN tree[me]) \subseteq {RootKey}

\* C29: after the games and a successful augmentation the graph is closed,
\* so that the propagation creates no position other than possibly the root
C29_Closure == []C29_State /\ [][C29_Step]_vars

\* White's games were added, two of them failing; the augmentation added
\* the edge of 1...Nf6 after 1.e4 and the position it leads to; and the
\* propagation has come to that position
C29_Witness ==
    LET map == tree["White"]
        e4_Nf6 == ShortKey("e4_Nf6", "w")
    IN  /\ LoopOver("White")
        /\ \E i \in DOMAIN log : log[i].me = "White" /\ log[i].result.kind # "Ok"
        /\ \E i \in DOMAIN log : log[i].me = "White" /\ log[i].result.kind = "Ok"
        /\ e4_Nf6 \in DOMAIN map /\ ShortKey("e4", "b") \in DOMAIN map
        /\ map[e4_Nf6].frequency # 0
        /\ map[ShortKey("e4", "b")].transitions[e4_Nf6].mv = UCI("g8f6")


\* every weight of the graph lies in [0, 1]
InRange(map) ==
    \A k \in DOMAIN map : \A d \in DOMAIN map[k].transitions :
        Weight(map, k, d) \in 0..One

RECURSIVE OutWeight(_, _, _)
OutWeight(map, k, dests) ==
    IF dests = <<>> THEN 0
    ELSE Weight(map, k, Head(dests)) + OutWeight(map, k, Tail(dests))

\* the weights of the edges that leave a position add up to 1 at most
OutAtMostOne(map) ==
    \A k \in DOMAIN map :
        OutWeight(map, k, SetToSeq(DOMAIN map[k].transitions)) <= One

\* the graph of C30: acyclic, weights in [0, 1], out-weights of sum <= 1
Conserving(map) == ~HasCycle(map) /\ InRange(map) /\ OutAtMostOne(map)

\* the positions without edges at which the owner is to move
OwnLeaves(map, me) ==
    {k \in own_positions(map, me) : transition_count(map[k]) = 0}

RECURSIVE FrequencyOf(_, _)
FrequencyOf(map, keys) ==
    IF keys = <<>> THEN 0
    ELSE map[Head(keys)].frequency + FrequencyOf(map, Tail(keys))

\* the mass that arrived at those positions
LeafTotal(map, me) == FrequencyOf(map, SetToSeq(OwnLeaves(map, me)))

\* some product fdelta * transition.frequency formed on a path from the
\* root is not exact (of an acyclic graph)
RECURSIVE Rounds(_, _)
Rounds(map, level) ==
    /\ level # <<>>
    /\ \/ \E i \in DOMAIN level :
             /\ level[i].key \in DOMAIN map
             /\ \E d \in DOMAIN map[level[i].key].transitions :
                   (level[i].mass * Weight(map, level[i].key, d)) % One # 0
       \/ Rounds(map, NextLevel(map, level))

InUnit(map, me) ==
    /\ \A k \in DOMAIN map : map[k].frequency \in 0..One
    /\ LeafTotal(map, me) <= One

\* C30 as stated: on an acyclic graph with weights in [0, 1] and out-weights
\* of sum 1 at most, a run leaves every frequency in [0, 1] and a total of
\* 1 at most at the owner's positions without edges
C30_Original ==
    \A me \in Players :
        LoopOver(me) /\ Conserving(tree[me]) => InUnit(tree[me], me)

C30_State ==
    \A me \in Players :
        /\ pc = <<"loop", me>> /\ InRange(tree[me]) =>
              \A i \in DOMAIN positions_to_update :
                  positions_to_update[i].fdelta \in 0..One
        /\ LoopOver(me) /\ Conserving(tree[me]) /\ ~Rounds(tree[me], Level0) =>
              InUnit(tree[me], me)

C30_Step ==
    \A me \in Players :
        pc = <<"loop", me>> /\ pc' = pc /\ InRange(tree[me]) =>
            LET n == Len(positions_to_update)
            IN  \A i \in DOMAIN positions_to_update' :
                    i >= n => positions_to_update'[i].fdelta
                                  <= positions_to_update[n].fdelta

\* C30 without rounding: on such a graph the mass of every work item lies
\* in [0, 1] and no item pushed has more than the item it was pushed for;
\* when no product on a path from the root is rounded, a run leaves every
\* frequency in [0, 1] and a total of 1 at most at the owner's positions
\* without edges
C30_Range == []C30_State /\ [][C30_Step]_vars

\* a run over a graph without rounding has ended with the whole mass spread
\* over three of the owner's positions without edges
C30_Witness ==
    /\ LoopOver("White")
    /\ Conserving(tree["White"]) /\ ~Rounds(tree["White"], Level0)
    /\ Cardinality({k \in OwnLeaves(tree["White"], "White") :
                       tree["White"][k].frequency \in 1..(One - 1)}) = 3
    /\ LeafTotal(tree["White"], "White") = One


-----------------------------------------------------------------------------
(* The cache: failing calls, and the one save of main *)

Failed(call) == cur.active /\ cur.call = call /\ result.kind # "Ok"

C31_State ==
    /\ Failed("load") => opening_book = cur.book
    /\ Failed("save") => has_changed(opening_book) = has_changed(cur.book)

C31_Step ==
    has_changed(opening_book) /\ ~has_changed(opening_book') =>
        cur'.call \in {"load", "save"} /\ result'.kind = "Ok"

\* C31: a load that fails (the reader fails, or the bytes do not decode)
\* leaves the map and the flag as they were, a save that fails leaves the
\* flag as it was, and the flag is cleared only by a call that returns Ok
C31_FailingCalls == []C31_State /\ [][C31_Step]_vars

\* a load of bytes that do not decode has failed on a cache that has entries
\* and has changed
C31_Witness ==
    /\ Failed("load") /\ result.kind = "Bincode"
    /\ has_changed(opening_book) /\ opening_book.cache # EmptyMap
    /\ opening_book = cur.book


\* the step writes the cache file: File::create has succeeded
Writes == disk' # disk \/ probe'.saved # probe.saved

\* the optimizer of `me` has asked the book at every position of the
\* opponent that has edges, has set the weights of its own moves, and has
\* run the propagation to its end
Completed(me) ==
    LET map == tree[me]
    IN  /\ \A k \in Opponents(map, me) :
              transition_count(map[k]) > 0 => k \in DOMAIN probe.asks
        /\ \A k \in own_positions(map, me) :
              \A d \in DOMAIN map[k].transitions :
                  NearestToOneOver(transition_count(map[k]), Weight(map, k, d))
        /\ RootKey \in DOMAIN map /\ map[RootKey].frequency >= One
        /\ positions_to_update = <<>>

C32_Step ==
    /\ Writes =>
          /\ pc = <<"save">> /\ pc' = <<"exit">>
          /\ report.printed /\ \A me \in Players : Completed(me)
          /\ opt.cache_file /\ has_changed(opening_book)
          /\ probe.missed
          /\ ~probe.saved.made
    /\ pc # <<"exit">>
    /\ pc[1] = "book" /\ pc' = <<"exit">> => result'.kind \notin {"Ok", "None"}

C32_State ==
    pc = <<"exit">> /\ ~report.printed =>
        disk \in {NoFile, Corrupt, Saved} /\ ~probe.saved.made

\* C32: main writes the cache file in one step only, its last, after both
\* optimizers have asked the book, set their weights and propagated and
\* after the report, and only if a cache file is given and has_changed() is
\* true; a run whose queries were all answered from the cache does not write,
\* and a run that an error of the augmentation ends does not write
C32_SavedOnce == []C32_State /\ [][C32_Step]_vars

\* a run that loaded the cache file and asked for a position that was not in
\* it has written the file anew
C32_Witness ==
    /\ pc = <<"exit">> /\ result.kind = "Ok" /\ report.printed
    /\ probe.saved.made
    /\ disk.exists /\ disk.valid /\ Saved.data \subseteq disk.data
    /\ disk # Saved

=============================================================================
